---- MODULE Spec2Model ----
(***************************************************************************)
(* Model of resolwe.flow.managers.base.BaseManager: the synchronization    *)
(* scope (_SynchronizationManager), communicate(), execution_barrier(),    *)
(* the control-channel handler (handle_control_event), the scan over       *)
(* RESOLVING Data objects (_data_scan) and the executor hand-off           *)
(* (_data_execute).                                                        *)
(*                                                                         *)
(* Callers are the threads that call the manager's public API, workers are *)
(* the channel consumers that run handle_control_event, one message at a   *)
(* time each.  Every access to the shared state (sync_execution,           *)
(* sync_semaphore, executor_count), to the channel and to a Data row is    *)
(* one step.                                                               *)
(***************************************************************************)
EXTENDS Integers, Sequences, FiniteSets, TLC

\* ----------------------------------------------------------------- bounds
NumCallers == 2
NumWorkers == 2
NumData == 2
MaxCalls == 2
MaxEdges == 2
MaxScopes == 2
NumSecrets == 2
MaxConstructions == 2
MaxChildren == 1
NumThreads == 2

Callers == 1..NumCallers
Workers == 1..NumWorkers
DataIds == 1..NumData

\* ------------------------------------------------------------- constants
STATUS_RESOLVING == "RE"
STATUS_WAITING == "WT"
STATUS_PROCESSING == "PR"
STATUS_DONE == "OK"
STATUS_ERROR == "ER"
COMMUNICATE == "COMMUNICATE"
FINISH == "FINISH"
KIND_IO == "io"
KIND_SUBPROCESS == "subprocess"
FLOW_MANAGER_KEEP_DATA == "FLOW_MANAGER_KEEP_DATA"
DEBUG == "DEBUG"
FLOW_EXECUTOR == "FLOW_EXECUTOR"

\* A parent's status as the query sees it: "None" when the parent was deleted.
Statuses ==
    {STATUS_RESOLVING, STATUS_WAITING, STATUS_PROCESSING, STATUS_DONE,
     STATUS_ERROR}

VARIABLES
    sync_execution,   \* ManagerState.sync_execution
    sync_semaphore,   \* ManagerState.sync_semaphore
    executor_count,   \* ManagerState.executor_count
    channel,          \* the messages on MANAGER_CONTROL_CHANNEL, oldest first
    status,           \* Data.status of every Data object
    running,          \* the Data objects handed to run() that have not finished
    caller,           \* every API caller's position
    worker,           \* every channel worker's position
    rundir,           \* the runtime directory <RUNTIME_DIR>/<id> of every Data
    runtime_dir,      \* the RUNTIME_DIR under which it was made
    process_error,    \* Data.process_error of every Data object
    process_rc,       \* Data.process_rc of every Data object
    orphaned,         \* the Data objects with an IO parent that was deleted
    django_settings,  \* django.conf.settings, the host configuration
    settings_override,\* ManagerState.settings_override
    resolver,         \* a DataDependency table and what dependency_status gave
    override_scopes,  \* the _SettingsManager scopes entered and not yet left
    reset_call,       \* the position of a caller of reset()
    manager_module,   \* the package resolwe.flow.managers of this process
    sandbox,          \* the files of one runtime directory while they are made
    engine_data,      \* the committed Data objects that evaluations created
    claims,           \* history: the claims set on sync_semaphore and not yet
                      \* cleared, by kind, and the kinds of which one was cleared
    scheduled,        \* history: how often _data_execute was scheduled per Data
    ncalls            \* history: how many API calls the callers have made

vars == <<sync_execution, sync_semaphore, executor_count, channel, status,
          running, caller, worker, rundir, runtime_dir, process_error, process_rc, orphaned,
          django_settings, settings_override, resolver, claims, scheduled,
          ncalls, override_scopes, reset_call, manager_module, sandbox, engine_data>>

shared == <<sync_execution, sync_semaphore, executor_count>>

\* What the manager writes on a Data object besides its status.
records == <<process_error, process_rc>>

\* What no operation of the manager changes: the dependencies, the host
\* configuration, and the table the resolver is tried on.
surroundings == <<orphaned, django_settings, resolver>>

\* What the operations on the control channel leave alone: the scopes of
\* override_settings(), a call of reset(), the construction of managers and
\* the files of a runtime directory in the making.
apart == <<override_scopes, reset_call, manager_module, sandbox, engine_data>>

\* ------------------------------------------------------------ SharedState
\* cas(key, expected, new): the stored value afterwards and the value returned,
\* which is the value seen before.
cas(cur, expected, new) ==
    [value |-> IF cur = expected THEN new ELSE cur, ret |-> cur]

\* Python truth of an integer, as `if not ...cas(0, 1)` tests it.
truthy(v) == v # 0

\* -------------------------------------------------------------- the tasks
\* The IO parents of a Data object: a chain 1 <- 2 <- ...
Parents(d) == IF d > 1 THEN {d - 1} ELSE {}

\* A row of DataDependency for one child: its kind and its parent's status.
Edge(kind, parent_status) == [kind |-> kind, parent_status |-> parent_status]

Edges == [kind : {KIND_IO, KIND_SUBPROCESS}, parent_status : Statuses \cup {"None"}]

\* A query that forgets the filter on the kind.
parents_statuses_any_kind(edges) ==
    {edges[i].parent_status : i \in DOMAIN edges}

\* set(DataDependency.objects.filter(child=data, kind=KIND_IO)
\*         .distinct('parent__status').values_list('parent__status', flat=True))
parents_statuses(edges) ==
    {edges[i].parent_status : i \in {j \in DOMAIN edges : edges[j].kind = KIND_IO}}

\* A resolver for which one DONE parent is enough.
dependency_status_of_some_done(statuses) ==
    IF statuses = {} THEN STATUS_DONE
    ELSE IF "None" \in statuses THEN STATUS_ERROR
    ELSE IF STATUS_ERROR \in statuses THEN STATUS_ERROR
    ELSE IF STATUS_DONE \in statuses THEN STATUS_DONE
    ELSE "None"

dependency_status_of(statuses) ==
    IF statuses = {} THEN STATUS_DONE
    ELSE IF "None" \in statuses THEN STATUS_ERROR
    ELSE IF STATUS_ERROR \in statuses THEN STATUS_ERROR
    ELSE IF Cardinality(statuses) = 1 /\ STATUS_DONE \in statuses
         THEN STATUS_DONE
    ELSE "None"

\* The rows of DataDependency with child d: one per parent in the chain, and one
\* with a null parent when a parent of d was deleted.
DataDependency(d) ==
    (IF d > 1 THEN <<Edge(KIND_IO, status[d - 1])>> ELSE <<>>)
        \o (IF d \in orphaned THEN <<Edge(KIND_IO, "None")>> ELSE <<>>)

dependency_status(d) == dependency_status_of(parents_statuses(DataDependency(d)))

\* --------------------------------------------------------------- settings
\* A settings dictionary is a function from keys to values; the empty one also
\* stands for None, which every reader replaces by {} (`... or {}`).
NoSettings == [k \in {} |-> FALSE]

\* The keys of django.conf.settings that start with FLOW_, RESOLWE_ or CELERY_.
MarshalledKeys == {FLOW_MANAGER_KEEP_DATA, FLOW_EXECUTOR}

\* dict.update: the keys of b win.
update(a, b) ==
    [k \in DOMAIN a \cup DOMAIN b |-> IF k \in DOMAIN b THEN b[k] ELSE a[k]]

marshal_settings(django) ==
    [k \in DOMAIN django \cap MarshalledKeys |-> django[k]]

\* The host configurations and the overrides the settings are tried with:
\* the marshalled name set either way, with and without a name that is not
\* marshalled.
Configurations ==
    {[k \in {FLOW_MANAGER_KEEP_DATA} |-> TRUE],
     [k \in {FLOW_MANAGER_KEEP_DATA, DEBUG} |-> k = DEBUG]}

Overrides ==
    {[k \in {FLOW_MANAGER_KEEP_DATA} |-> FALSE], [k \in {DEBUG} |-> FALSE]}

\* A handler for which the saved overrides are stronger than the packet.
settings_actual_packet_weaker(django, override, immediates) ==
    update(marshal_settings(django), update(immediates, override))

\* handle_control_event: Django overlaid by state overlaid by the packet.
settings_actual(django, override, immediates) ==
    update(marshal_settings(django), update(override, immediates))

\* _get_per_data_dir('RUNTIME_DIR', data_id): the directory under which the
\* runtime directory of an object is, as the settings of the handler have it.
\* Of the dictionary FLOW_EXECUTOR the settings here have the entry RUNTIME_DIR.
get_per_data_dir(actual) ==
    IF FLOW_EXECUTOR \in DOMAIN actual THEN actual[FLOW_EXECUTOR] ELSE ""

\* getattr(settings, 'FLOW_MANAGER_KEEP_DATA', False)
keep_data(django) ==
    IF FLOW_MANAGER_KEEP_DATA \in DOMAIN django
    THEN django[FLOW_MANAGER_KEEP_DATA] ELSE FALSE

\* ------------------------------------------------- runtime directories
\* A runtime directory is absent, or as _data_execute builds it ("built"), or
\* built and holding an entry the executor left in a directory that does not
\* allow removing it ("sealed").  What denies removal in it: the secrets
\* directory of mode 0o300 cannot be listed; a sealed entry cannot be unlinked.
Denials(dir) ==
    CASE dir = "absent" -> {}
      [] dir = "built" -> {"listing"}
      [] dir = "sealed" -> {"listing", "unlink"}

\* handle_error: os.chmod(path, 0o700); shutil.rmtree(path).  The mode of path
\* decides whether path can be listed, the directory holding path whether it
\* can be unlinked: the retry removes what could not be listed, and raises
\* OSError for what could not be unlinked.
handle_error(denial) == IF denial = "listing" THEN "removed" ELSE "OSError"

\* shutil.rmtree(..., onerror=handle_error) inside `except OSError`: the
\* directory is gone unless the handler raised.
rmtree(dir) ==
    IF \A denial \in Denials(dir) : handle_error(denial) = "removed"
    THEN "absent" ELSE dir

\* ------------------------------------------------------------------ Init
\* A caller outside every call.  The last four fields are history: the outcome
\* of its last call, whether communicate() was called since its wait loop
\* ended, whether an executor has finished since its call began, and whether
\* another caller was inside a scope while this one was.
IdleCaller ==
    [pc |-> "idle", op |-> "none", force |-> FALSE, res |-> "none",
     dirty |-> FALSE, fin |-> FALSE, overlap |-> FALSE]

\* No transaction is open: no row is locked and nothing is written.
NoTransaction ==
    [row |-> 0, status |-> "none", error |-> <<>>, rc |-> "keep",
     execute |-> FALSE, program |-> FALSE, children |-> {}]

IdleWorker ==
    [pc |-> "idle", cmd |-> "none", snapshot |-> {}, data |-> 0,
     program |-> FALSE, spawned |-> FALSE, settings |-> NoSettings,
     data_id |-> 0, exp |-> "none", transaction |-> NoTransaction]

\* No scope of override_settings() is open and no exception is in flight in
\* the thread that opens them.
NoScopes ==
    [stack |-> <<>>, exc |-> "None",
     threads |-> [t \in 1..NumThreads |->
                     [pc |-> "out", overrides |-> [k \in {} |-> FALSE],
                      old_overrides |-> [k \in {} |-> FALSE],
                      merged |-> [k \in {} |-> FALSE]]],
     before |-> [k \in {} |-> FALSE],
     log |-> <<>>]

\* Nobody is inside reset().
NoReset == [pc |-> "idle", discarded |-> 0]

\* The package resolwe.flow.managers: whether its attribute `manager` is bound,
\* how many managers have been constructed in this process and how many
\* constructions were refused.
Importing == [manager |-> FALSE, instances |-> 0, refused |-> 0]
Imported == [manager |-> TRUE, instances |-> 1, refused |-> 0]

\* No runtime directory is in the making.
NoSandbox == [pc |-> "none"]

\* No table has been given to the resolver.
NoTable == [edges |-> <<>>, result |-> "unset"]

\* The manager after construction, or reset(), with nothing processed yet.
Start ==
    /\ sync_execution = 0
    /\ sync_semaphore = 0
    /\ executor_count = 0
    /\ channel = <<>>
    /\ status = [d \in DataIds |-> STATUS_RESOLVING]
    /\ running = {}
    /\ caller = [c \in Callers |-> IdleCaller]
    /\ worker = [w \in Workers |-> IdleWorker]
    /\ claims = [comm |-> 0, exec |-> 0, follow |-> 0, cleared |-> {}]
    /\ scheduled = [d \in DataIds |-> 0]
    /\ ncalls = 0
    /\ engine_data = {}
    /\ rundir = [d \in DataIds |-> "absent"]
    /\ runtime_dir = [d \in DataIds |-> ""]
    /\ process_error = [d \in DataIds |-> <<>>]
    /\ process_rc = [d \in DataIds |-> "None"]
    /\ orphaned = {}
    /\ django_settings = NoSettings
    /\ override_scopes = NoScopes
    /\ reset_call = NoReset

Init ==
    /\ Start
    /\ resolver = NoTable
    /\ manager_module = Imported
    /\ settings_override = NoSettings
    /\ sandbox = NoSandbox

\* ----------------------------------------------------------- bookkeeping
\* A claim of kind k is set, or cleared.
Up(l, k) == [l EXCEPT ![k] = @ + 1]
Down(l, k) == [l EXCEPT ![k] = @ - 1, !.cleared = @ \cup {k}]

\* communicate() is called: the callers past their wait loop are told.
NoteCommunicate(cl) ==
    [o \in Callers |->
        IF cl[o].pc = "exit_cas" THEN [cl[o] EXCEPT !.dirty = TRUE] ELSE cl[o]]

\* An executor finishes: the callers inside a call are told.
NoteFinish(cl) ==
    [o \in Callers |->
        IF cl[o].pc # "idle" THEN [cl[o] EXCEPT !.fin = TRUE] ELSE cl[o]]

Message(cmd, data_id, spawned, settings) ==
    [cmd |-> cmd, data_id |-> data_id, spawned |-> spawned, settings |-> settings]

\* ------------------------------------------- _SynchronizationManager
\* A forced entry that does not set the flag.
enter_scope_unset(force_enter, cur) ==
    IF force_enter
    THEN [value |-> cur, raised |-> FALSE]
    ELSE LET r == cas(cur, 0, 1)
         IN  [value |-> r.value, raised |-> ~truthy(r.ret)]

\* __enter__: the new value of sync_execution and whether RuntimeError is raised.
enter_scope(force_enter, cur) ==
    IF force_enter
    THEN [value |-> 1, raised |-> FALSE]
    ELSE LET r == cas(cur, 0, 1)
         IN  [value |-> r.value, raised |-> ~truthy(r.ret)]

\* A wait loop that lets the last claim through.
exit_must_wait_late(sema) == sema > 1

\* __exit__: the condition of the wait loop.
exit_must_wait(sema) == sema > 0

\* An exit that checks the flag and forgets to clear it.
exit_scope_keep(cur) == [value |-> cur, asserted |-> cur = 1]

\* __exit__: the new value of sync_execution and whether the assertion holds.
exit_scope(cur) ==
    LET r == cas(cur, 1, 0)
    IN  [value |-> r.value, asserted |-> r.ret = 1]

\* A caller at position r is inside a synchronization scope.
Inside(r) ==
    \/ r.pc \in {"body", "exit", "exit_cas"}
    \/ r.pc = "send" /\ r.op \in {"synchronized", "execution_barrier"}

\* The position after the scope has been entered.
AfterEnter(op) == IF op = "communicate_sync" THEN "exit" ELSE "body"

\* The position after communicate() has sent its command.
AfterSend(op) ==
    CASE op = "communicate" -> "idle"
      [] op = "communicate_sync" -> "enter"
      [] op = "execution_barrier" -> "exit"
      [] op = "synchronized" -> "body"

\* ------------------------------------------------------ the API callers
NewCall(op) == [IdleCaller EXCEPT !.op = op]

\* Callers are alike, and so are workers: of those that have not made a call
\* yet the lowest makes the next first call, and of the idle workers the
\* lowest takes the next message.
MayCall(c) ==
    /\ caller[c].pc = "idle"
    /\ ncalls < MaxCalls
    /\ \A o \in Callers : o < c => caller[o].op # "none"

MayTake(w) ==
    /\ worker[w].pc = "idle"
    /\ \A o \in Workers : o < w => worker[o].pc # "idle"

\* A communicate() that sends its command without a claim on the semaphore.
communicate_unclaimed(c, run_sync) ==
    /\ MayCall(c)
    /\ ncalls' = ncalls + 1
    /\ caller' = [NoteCommunicate(caller) EXCEPT ![c] =
           [NewCall(IF run_sync THEN "communicate_sync" ELSE "communicate")
               EXCEPT !.pc = "send"]]
    /\ UNCHANGED <<shared, channel, status, running, worker, claims, scheduled,
                   rundir, runtime_dir, records, surroundings, apart, settings_override>>

\* communicate(run_sync): the claim on the semaphore, before the send.
communicate(c, run_sync) ==
    /\ MayCall(c)
    /\ ncalls' = ncalls + 1
    /\ sync_semaphore' = sync_semaphore + 1
    /\ claims' = Up(claims, "comm")
    /\ caller' = [NoteCommunicate(caller) EXCEPT ![c] =
           [NewCall(IF run_sync THEN "communicate_sync" ELSE "communicate")
               EXCEPT !.pc = "send"]]
    /\ UNCHANGED <<sync_execution, executor_count, channel, status, running,
                   worker, scheduled,
                   rundir, runtime_dir, records, surroundings, apart, settings_override>>

\* communicate(): with save_settings the Django settings are marshalled and
\* saved, without it the saved ones are read; the command is sent with them;
\* with run_sync the call goes on to `with self.synchronized()`.
\* A communicate() that sends the marshalled settings and does not save them.
communicate_send_unsaved(c, save_settings) ==
    /\ caller[c].pc = "send"
    /\ channel' = Append(channel,
           Message(COMMUNICATE, 0, FALSE,
                   IF save_settings THEN marshal_settings(django_settings)
                   ELSE settings_override))
    /\ caller' = [caller EXCEPT
           ![c].pc = AfterSend(caller[c].op),
           ![c].res = IF caller[c].op = "communicate" THEN "returned" ELSE @]
    /\ UNCHANGED <<shared, status, running, worker, claims, scheduled, ncalls,
                   rundir, runtime_dir, records, surroundings, apart, settings_override>>

communicate_send(c, save_settings) ==
    /\ caller[c].pc = "send"
    /\ LET saved_settings == IF save_settings
                             THEN marshal_settings(django_settings)
                             ELSE settings_override
       IN  /\ settings_override' = saved_settings
           /\ channel' = Append(channel, Message(COMMUNICATE, 0, FALSE, saved_settings))
    /\ caller' = [caller EXCEPT
           ![c].pc = AfterSend(caller[c].op),
           ![c].res = IF caller[c].op = "communicate" THEN "returned" ELSE @]
    /\ UNCHANGED <<shared, status, running, worker, claims, scheduled, ncalls,
                   rundir, runtime_dir, records, surroundings, apart>>

\* _SynchronizationManager.__enter__ by caller c, whose call is `call`.
Enter(c, call, force_enter) ==
    LET e == enter_scope(force_enter, sync_execution)
    IN  /\ sync_execution' = e.value
        /\ caller' =
               IF e.raised
               THEN [caller EXCEPT ![c] =
                        [call EXCEPT !.pc = "idle", !.res = "RuntimeError"]]
               ELSE [o \in Callers |->
                        IF o = c
                        THEN [call EXCEPT
                                 !.pc = AfterEnter(call.op), !.force = force_enter,
                                 !.overlap = \E x \in Callers \ {c} : Inside(caller[x])]
                        ELSE IF Inside(caller[o])
                             THEN [caller[o] EXCEPT !.overlap = TRUE]
                             ELSE caller[o]]

\* with self.synchronized(force_enter): ...
synchronized(c, force_enter) ==
    /\ MayCall(c)
    /\ ncalls' = ncalls + 1
    /\ Enter(c, NewCall("synchronized"), force_enter)
    /\ UNCHANGED <<sync_semaphore, executor_count, channel, status, running,
                   worker, claims, scheduled,
                   rundir, runtime_dir, records, surroundings, apart, settings_override>>

\* execution_barrier(force_enter): with self.synchronized(force_enter=...)
execution_barrier(c, force_enter) ==
    /\ MayCall(c)
    /\ ncalls' = ncalls + 1
    /\ Enter(c, NewCall("execution_barrier"), force_enter)
    /\ UNCHANGED <<sync_semaphore, executor_count, channel, status, running,
                   worker, claims, scheduled,
                   rundir, runtime_dir, records, surroundings, apart, settings_override>>

\* communicate(run_sync=True), after the send: with self.synchronized(): pass
communicate_sync_enter(c) ==
    /\ caller[c].pc = "enter"
    /\ Enter(c, caller[c], FALSE)
    /\ UNCHANGED <<sync_semaphore, executor_count, channel, status, running,
                   worker, claims, scheduled, ncalls,
                   rundir, runtime_dir, records, surroundings, apart, settings_override>>

\* communicate() called inside the scope: by execution_barrier(), or by the
\* body of a synchronized() block.
body_communicate(c) ==
    /\ caller[c].pc = "body"
    /\ IF caller[c].op = "synchronized"
       THEN ncalls < MaxCalls /\ ncalls' = ncalls + 1
       ELSE ncalls' = ncalls
    /\ sync_semaphore' = sync_semaphore + 1
    /\ claims' = Up(claims, "comm")
    /\ caller' = [NoteCommunicate(caller) EXCEPT ![c].pc = "send"]
    /\ UNCHANGED <<sync_execution, executor_count, channel, status, running,
                   worker, scheduled,
                   rundir, runtime_dir, records, surroundings, apart, settings_override>>

\* __exit__: the wait loop reads the semaphore and ends (otherwise it sleeps).
sync_exit_wait(c) ==
    /\ \/ caller[c].pc = "exit"
       \/ caller[c].pc = "body" /\ caller[c].op = "synchronized"
    /\ ~exit_must_wait(sync_semaphore)
    /\ caller' = [caller EXCEPT ![c].pc = "exit_cas", ![c].dirty = FALSE]
    /\ UNCHANGED <<shared, channel, status, running, worker, claims, scheduled,
                   ncalls,
                   rundir, runtime_dir, records, surroundings, apart, settings_override>>

\* __exit__: assert self.state.sync_execution.cas(1, 0) == 1
sync_exit_cas(c) ==
    /\ caller[c].pc = "exit_cas"
    /\ LET x == exit_scope(sync_execution)
       IN  /\ sync_execution' = x.value
           /\ caller' = [caller EXCEPT
                  ![c].pc = "idle", ![c].force = FALSE,
                  ![c].res = IF x.asserted THEN "returned" ELSE "AssertionError"]
    /\ UNCHANGED <<sync_semaphore, executor_count, channel, status, running,
                   worker, claims, scheduled, ncalls,
                   rundir, runtime_dir, records, surroundings, apart, settings_override>>

\* ---------------------------------------------------------- the scanner
\* What evaluating data.process.run can give: a program, an empty program (also
\* when there is no run section), an ExecutionError of the engine, the
\* InvalidEngineError of get_execution_engine when no engine is registered for
\* the language, or a program for an object the engine has already marked as
\* done.
Evaluations ==
    {"program", "empty", "ExecutionError", "InvalidEngineError", "done"}

\* The messages the manager appends to Data.process_error.
INPUTS_ERROR == "One or more inputs have status ERROR"
SCRIPT_ERROR == "Error in process script: "
PERMISSION_ERROR == "Permission denied for process: "

\* A scan that trusts its snapshot and does not re-check the locked row.
still_resolving_unchecked(st) == TRUE

\* The re-check under the row lock: is the object still to be processed?
still_resolving(st) == st = STATUS_RESOLVING

\* The outcome of one iteration of the loop of _data_scan: the status the row
\* is saved with, what is appended to process_error, the process_rc that is set
\* (as a numeral, "keep" for none) and whether _data_execute is registered with
\* transaction.on_commit.
Row(st, error, rc, execute) ==
    [status |-> st, error |-> error, rc |-> rc, execute |-> execute]

\* A scan for which a parent in ERROR is like a parent that is not done yet.
scan_row_inputs_pending(st, dep_status, evaluation) ==
    IF ~still_resolving(st) THEN Row(st, <<>>, "keep", FALSE)
    ELSE IF dep_status # STATUS_DONE THEN Row(st, <<>>, "keep", FALSE)
    ELSE IF evaluation \in {"ExecutionError", "InvalidEngineError"}
         THEN Row(STATUS_ERROR, <<SCRIPT_ERROR>>, "keep", FALSE)
    ELSE Row(IF evaluation = "done" THEN STATUS_DONE ELSE STATUS_WAITING,
             <<>>, "keep", TRUE)

\* A scan that does not wait for the parents.
scan_row_eager(st, dep_status, evaluation) ==
    IF ~still_resolving(st) THEN Row(st, <<>>, "keep", FALSE)
    ELSE IF dep_status = STATUS_ERROR
         THEN Row(STATUS_ERROR, <<INPUTS_ERROR>>, "1", FALSE)
    ELSE IF evaluation \in {"ExecutionError", "InvalidEngineError"}
         THEN Row(STATUS_ERROR, <<SCRIPT_ERROR>>, "keep", FALSE)
    ELSE Row(IF evaluation = "done" THEN STATUS_DONE ELSE STATUS_WAITING,
             <<>>, "keep", TRUE)

\* A scan that catches ExecutionError only.
scan_row_engine_unchecked(st, dep_status, evaluation) ==
    IF ~still_resolving(st) THEN Row(st, <<>>, "keep", FALSE)
    ELSE IF dep_status = STATUS_ERROR
         THEN Row(STATUS_ERROR, <<INPUTS_ERROR>>, "1", FALSE)
    ELSE IF dep_status # STATUS_DONE THEN Row(st, <<>>, "keep", FALSE)
    ELSE IF evaluation = "ExecutionError"
         THEN Row(STATUS_ERROR, <<SCRIPT_ERROR>>, "keep", FALSE)
    ELSE Row(IF evaluation = "done" THEN STATUS_DONE ELSE STATUS_WAITING,
             <<>>, "keep", TRUE)

\* A scan that saves WAITING whatever the engine has set.
scan_row_overwriting(st, dep_status, evaluation) ==
    IF ~still_resolving(st) THEN Row(st, <<>>, "keep", FALSE)
    ELSE IF dep_status = STATUS_ERROR
         THEN Row(STATUS_ERROR, <<INPUTS_ERROR>>, "1", FALSE)
    ELSE IF dep_status # STATUS_DONE THEN Row(st, <<>>, "keep", FALSE)
    ELSE IF evaluation \in {"ExecutionError", "InvalidEngineError"}
         THEN Row(STATUS_ERROR, <<SCRIPT_ERROR>>, "keep", FALSE)
    ELSE Row(STATUS_WAITING, <<>>, "keep", TRUE)

\* One iteration of the loop of _data_scan, the transaction on the locked row.
scan_row(st, dep_status, evaluation) ==
    IF ~still_resolving(st) THEN Row(st, <<>>, "keep", FALSE)
    ELSE IF dep_status = STATUS_ERROR
         THEN Row(STATUS_ERROR, <<INPUTS_ERROR>>, "1", FALSE)
    ELSE IF dep_status # STATUS_DONE THEN Row(st, <<>>, "keep", FALSE)
    ELSE IF evaluation \in {"ExecutionError", "InvalidEngineError"}
         THEN Row(STATUS_ERROR, <<SCRIPT_ERROR>>, "keep", FALSE)
    ELSE Row(IF evaluation = "done" THEN STATUS_DONE ELSE STATUS_WAITING,
             <<>>, "keep", TRUE)

\* What preparing the executor's environment can give: it succeeds, or
\* PermissionDenied is raised (by executor.extend_settings in _prepare_context,
\* when the runtime directory has been made), or OSError, either by
\* _prepare_data_dir, before the runtime directory is made ("OSError"), or
\* while the files are written into it ("OSError_context").
Preparations == {"ok", "PermissionDenied", "OSError", "OSError_context"}

\* The runtime directory after the preparation: _prepare_executor makes it.
prepared_dir(dir, preparation) == IF preparation = "OSError" THEN dir ELSE "built"

\* A handler that leaves the follow-up scan out.
handler_entry_no_follow_up(m) ==
    IF m.cmd = COMMUNICATE THEN "query"
    ELSE IF m.cmd = FINISH THEN "finish"
    ELSE "idle"

\* A handler for which every command that is not a plain FINISH starts a scan.
handler_entry_unknown_scans(m) ==
    IF m.cmd = FINISH /\ ~m.spawned THEN "finish" ELSE "query"

\* Where handle_control_event goes after composing the settings: into the scan
\* for COMMUNICATE and for FINISH with spawned set, to the counters for any
\* other FINISH; an unknown command is logged and that is all.
handler_entry(m) ==
    IF m.cmd = COMMUNICATE \/ (m.cmd = FINISH /\ m.spawned) THEN "query"
    ELSE IF m.cmd = FINISH THEN "finish"
    ELSE "idle"

\* The directory the FINISH handler removes the runtime directory from: the
\* one its own settings_actual gives, Django overlaid by the saved overrides.
removed_dir(m) ==
    get_per_data_dir(settings_actual(django_settings, settings_override, NoSettings))

\* A handler that starts the follow-up scan without its claim on the semaphore.
handle_control_event_unclaimed(w) ==
    /\ MayTake(w)
    /\ channel # <<>>
    /\ LET m == Head(channel)
       IN  /\ channel' = Tail(channel)
           /\ worker' = [worker EXCEPT ![w] =
                  [IdleWorker EXCEPT
                      !.pc = handler_entry(m),
                      !.cmd = IF m.cmd \in {COMMUNICATE, FINISH} THEN m.cmd ELSE "none",
                      !.data = m.data_id, !.data_id = m.data_id,
                      !.spawned = m.spawned,
                      !.settings = settings_actual(django_settings, settings_override,
                                      IF m.cmd = COMMUNICATE THEN m.settings
                                      ELSE NoSettings)]]
           /\ rundir' = IF /\ m.cmd = FINISH
                           /\ ~keep_data(django_settings)
                           /\ removed_dir(m) = runtime_dir[m.data_id]
                        THEN [rundir EXCEPT ![m.data_id] = rmtree(@)]
                        ELSE rundir
           /\ runtime_dir' = runtime_dir
    /\ UNCHANGED <<shared, status, running, caller, claims, scheduled, ncalls,
                   records, surroundings, apart, settings_override>>

\* handle_control_event: a worker takes the next message off the channel and
\* composes the settings.  For FINISH the runtime directory is removed, unless
\* it is to be kept, and with spawned set the follow-up claim is put on the
\* semaphore.
handle_control_event(w) ==
    /\ MayTake(w)
    /\ channel # <<>>
    /\ LET m == Head(channel)
       IN  /\ channel' = Tail(channel)
           /\ worker' = [worker EXCEPT ![w] =
                  [IdleWorker EXCEPT
                      !.pc = handler_entry(m),
                      !.cmd = IF m.cmd \in {COMMUNICATE, FINISH} THEN m.cmd ELSE "none",
                      !.data = m.data_id, !.data_id = m.data_id,
                      !.spawned = m.spawned,
                      !.settings = settings_actual(django_settings, settings_override,
                                      IF m.cmd = COMMUNICATE THEN m.settings
                                      ELSE NoSettings)]]
           /\ rundir' = IF /\ m.cmd = FINISH
                           /\ ~keep_data(django_settings)
                           /\ removed_dir(m) = runtime_dir[m.data_id]
                        THEN [rundir EXCEPT ![m.data_id] = rmtree(@)]
                        ELSE rundir
           /\ runtime_dir' = runtime_dir
           /\ IF m.cmd = FINISH /\ m.spawned
              THEN /\ sync_semaphore' = sync_semaphore + 1
                   /\ claims' = Up(claims, "follow")
              ELSE UNCHANGED <<sync_semaphore, claims>>
    /\ UNCHANGED <<sync_execution, executor_count, status, running, caller,
                   scheduled, ncalls,
                   records, surroundings, apart, settings_override>>

\* _data_scan: Data.objects.filter(status=Data.STATUS_RESOLVING)
data_scan_query(w) ==
    /\ worker[w].pc = "query"
    /\ worker' = [worker EXCEPT
           ![w].pc = "scan",
           ![w].snapshot = {d \in DataIds : status[d] = STATUS_RESOLVING}]
    /\ UNCHANGED <<shared, channel, status, running, caller, claims, scheduled, ncalls,
                   rundir, runtime_dir, records, surroundings, apart, settings_override>>

\* _data_scan: one iteration of the loop, a transaction holding the row lock.
data_scan_row(w, d, evaluation) ==
    /\ worker[w].pc = "scan"
    /\ d \in worker[w].snapshot
    /\ LET r == scan_row(status[d], dependency_status(d), evaluation)
       IN  /\ status' = [status EXCEPT ![d] = r.status]
           /\ process_error' = [process_error EXCEPT ![d] = @ \o r.error]
           /\ process_rc' = [process_rc EXCEPT ![d] = IF r.rc = "keep" THEN @ ELSE r.rc]
           /\ scheduled' = [scheduled EXCEPT ![d] = IF r.execute THEN @ + 1 ELSE @]
           /\ worker' = [worker EXCEPT
                  ![w].snapshot = @ \ {d},
                  ![w].pc = IF r.execute THEN "execute" ELSE "scan",
                  ![w].data = IF r.execute THEN d ELSE @,
                  ![w].program = r.execute /\ evaluation # "empty"]
    /\ UNCHANGED <<shared, channel, running, caller, claims, ncalls,
                   rundir, runtime_dir, surroundings, apart, settings_override>>

\* A _data_execute for which PermissionDenied is one more error that is logged
\* and skipped.
data_execute_denial_skipped(w, preparation) ==
    /\ worker[w].pc = "execute"
    /\ LET d == worker[w].data
           go == worker[w].program /\ preparation = "ok"
       IN  /\ executor_count' = IF go THEN executor_count + 1 ELSE executor_count
           /\ rundir' = IF worker[w].program
                        THEN [rundir EXCEPT ![d] = prepared_dir(@, preparation)]
                        ELSE rundir
           /\ runtime_dir' = IF worker[w].program /\ preparation # "OSError"
                             THEN [runtime_dir EXCEPT
                                      ![d] = get_per_data_dir(worker[w].settings)]
                             ELSE runtime_dir
           /\ worker' = [worker EXCEPT ![w].pc = IF go THEN "run" ELSE "scan",
                                       ![w].program = go,
                                       ![w].data = IF go THEN @ ELSE 0]
    /\ UNCHANGED <<sync_execution, sync_semaphore, channel, running, caller,
                   claims, scheduled, ncalls, status,
                   records, surroundings, apart, settings_override>>

\* _data_execute up to self.state.executor_count.add(1): nothing to run, or the
\* environment is prepared and the executor counted.
data_execute(w, preparation) ==
    /\ worker[w].pc = "execute"
    /\ LET d == worker[w].data
           go == worker[w].program /\ preparation = "ok"
           denied == worker[w].program /\ preparation = "PermissionDenied"
       IN  /\ executor_count' = IF go THEN executor_count + 1 ELSE executor_count
           /\ rundir' = IF worker[w].program
                        THEN [rundir EXCEPT ![d] = prepared_dir(@, preparation)]
                        ELSE rundir
           /\ runtime_dir' = IF worker[w].program /\ preparation # "OSError"
                             THEN [runtime_dir EXCEPT
                                      ![d] = get_per_data_dir(worker[w].settings)]
                             ELSE runtime_dir
           /\ status' = IF denied THEN [status EXCEPT ![d] = STATUS_ERROR] ELSE status
           /\ process_error' = IF denied
                               THEN [process_error EXCEPT ![d] = Append(@, PERMISSION_ERROR)]
                               ELSE process_error
           /\ worker' = [worker EXCEPT ![w].pc = IF go THEN "run" ELSE "scan",
                                       ![w].program = go,
                                       ![w].data = IF go THEN @ ELSE 0]
    /\ UNCHANGED <<sync_execution, sync_semaphore, channel, running, caller,
                   claims, scheduled, ncalls,
                   process_rc, surroundings, apart, settings_override>>

\* A hand-off that starts the executor without its claim on the semaphore.
data_execute_run_unclaimed(w) ==
    /\ worker[w].pc = "run"
    /\ running' = running \cup {worker[w].data}
    /\ worker' = [worker EXCEPT ![w].pc = "scan", ![w].program = FALSE, ![w].data = 0]
    /\ UNCHANGED <<shared, channel, status, caller, claims, scheduled, ncalls,
                   rundir, runtime_dir, records, surroundings, apart, settings_override>>

\* _data_execute: the execution claim on the semaphore, then run().
data_execute_run(w) ==
    /\ worker[w].pc = "run"
    /\ sync_semaphore' = sync_semaphore + 1
    /\ claims' = Up(claims, "exec")
    /\ running' = running \cup {worker[w].data}
    /\ worker' = [worker EXCEPT ![w].pc = "scan", ![w].program = FALSE, ![w].data = 0]
    /\ UNCHANGED <<sync_execution, executor_count, channel, status, caller,
                   scheduled, ncalls,
                   rundir, runtime_dir, records, surroundings, apart, settings_override>>

\* A handler whose scan ends without clearing the claim it was run under.
data_scan_end_kept(w) ==
    /\ worker[w].pc = "scan"
    /\ worker[w].snapshot = {}
    /\ worker' = [worker EXCEPT ![w] =
           IF worker[w].cmd = FINISH THEN [@ EXCEPT !.pc = "finish"] ELSE IdleWorker]
    /\ UNCHANGED <<shared, channel, status, running, caller, claims, scheduled,
                   ncalls,
                   rundir, runtime_dir, records, surroundings, apart, settings_override>>

\* The scan is over: the claim of communicate(), or the follow-up claim, is
\* cleared (the finally clauses of handle_control_event).
data_scan_end(w) ==
    /\ worker[w].pc = "scan"
    /\ worker[w].snapshot = {}
    /\ sync_semaphore' = sync_semaphore - 1
    /\ claims' = Down(claims, IF worker[w].cmd = FINISH THEN "follow" ELSE "comm")
    /\ worker' = [worker EXCEPT ![w] =
           IF worker[w].cmd = FINISH THEN [@ EXCEPT !.pc = "finish"] ELSE IdleWorker]
    /\ UNCHANGED <<sync_execution, executor_count, channel, status, running,
                   caller, scheduled, ncalls,
                   rundir, runtime_dir, records, surroundings, apart, settings_override>>

\* A FINISH handler that does not count the executor down.
finish_count_kept(w) ==
    /\ worker[w].pc = "finish"
    /\ worker' = [worker EXCEPT ![w].pc = "finish_sema"]
    /\ UNCHANGED <<shared, channel, status, running, caller, claims, scheduled,
                   ncalls, rundir, runtime_dir, records, surroundings, apart, settings_override>>

\* FINISH: self.state.executor_count.add(-1)
finish_count(w) ==
    /\ worker[w].pc = "finish"
    /\ executor_count' = executor_count - 1
    /\ worker' = [worker EXCEPT ![w].pc = "finish_sema"]
    /\ UNCHANGED <<sync_execution, sync_semaphore, channel, status, running,
                   caller, claims, scheduled, ncalls,
                   rundir, runtime_dir, records, surroundings, apart, settings_override>>

\* A FINISH handler that leaves the execution claim on the semaphore.
finish_sema_kept(w) ==
    /\ worker[w].pc = "finish_sema"
    /\ worker' = [worker EXCEPT ![w] = IdleWorker]
    /\ UNCHANGED <<shared, channel, status, running, caller, claims, scheduled, ncalls,
                   rundir, runtime_dir, records, surroundings, apart, settings_override>>

\* FINISH: the execution claim on the semaphore is cleared.
finish_sema(w) ==
    /\ worker[w].pc = "finish_sema"
    /\ sync_semaphore' = sync_semaphore - 1
    /\ claims' = Down(claims, "exec")
    /\ worker' = [worker EXCEPT ![w] = IdleWorker]
    /\ UNCHANGED <<sync_execution, executor_count, channel, status, running,
                   caller, scheduled, ncalls,
                   rundir, runtime_dir, records, surroundings, apart, settings_override>>

\* ------------------------------------------------ the files of a sandbox
\* A mode is the set of its permission bits; a umask takes its bits away.
Mode300 == {"uw", "ux"}
Mode600 == {"ur", "uw"}
Mode700 == {"ur", "uw", "ux"}
Mode666 == {"ur", "uw", "gr", "gw", "or", "ow"}

\* The umasks a manager process is started with: 0o000, 0o022, 0o027, 0o077.
Umasks ==
    {{}, {"gw", "ow"}, {"gw", "or", "ow", "ox"},
     {"gr", "gw", "gx", "or", "ow", "ox"}}

SecretNames == 1..NumSecrets

NoFile == [exists |-> FALSE, mode |-> {}, owner |-> "none", content |-> "none"]

\* os.makedirs(path, mode) and the creation of a file by open: the mode is
\* combined with the umask of the process.
created(mode, umask) ==
    [exists |-> TRUE, mode |-> mode \ umask, owner |-> "manager",
     content |-> "none"]

\* os.open(file_path, os.O_WRONLY | os.O_CREAT, mode=0o600): a file that is
\* there is opened as it is, with its mode and its owner, otherwise the file is
\* created.
os_open(file, mode, umask) ==
    IF file.exists THEN [file |-> file, raised |-> FALSE]
    ELSE [file |-> created(mode, umask), raised |-> FALSE]

\* _data_execute begins to write into a runtime directory, in a process with
\* the given umask.
NewSandbox(umask) ==
    [pc |-> "makedirs", umask |-> umask, initial_umask |-> umask,
     old_umask |-> {}, secrets_dir |-> NoFile, todo |-> SecretNames,
     file_name |-> 0, secrets |-> [n \in SecretNames |-> NoFile],
     script |-> NoFile]

outside_sandbox ==
    <<shared, channel, status, running, caller, worker, claims, scheduled,
      ncalls, rundir, runtime_dir, records, surroundings, settings_override,
      override_scopes, reset_call, manager_module, engine_data>>

\* _prepare_context: os.makedirs(secrets_dir, mode=0o300)
prepare_context_makedirs ==
    /\ sandbox.pc = "makedirs"
    /\ sandbox' = [sandbox EXCEPT
           !.secrets_dir = created(Mode300, sandbox.umask), !.pc = "secrets"]
    /\ UNCHANGED outside_sandbox

\* _prepare_context: the loop over the secrets takes the next one, and
\* old_umask = os.umask(0); after the last one _prepare_script is next.
prepare_context_umask(file_name) ==
    /\ sandbox.pc = "secrets"
    /\ IF sandbox.todo = {}
       THEN /\ file_name = 0
            /\ sandbox' = [sandbox EXCEPT !.pc = "script"]
       ELSE /\ file_name \in sandbox.todo
            /\ sandbox' = [sandbox EXCEPT
                   !.file_name = file_name, !.todo = @ \ {file_name},
                   !.old_umask = sandbox.umask, !.umask = {}, !.pc = "open"]
    /\ UNCHANGED outside_sandbox

\* _prepare_context: os.open, os.fdopen and raw_file.write(value)
prepare_context_write ==
    /\ sandbox.pc = "open"
    /\ LET n == sandbox.file_name
           opened == os_open(sandbox.secrets[n], Mode600, sandbox.umask)
       IN  sandbox' = [sandbox EXCEPT
               !.secrets[n] = IF opened.raised THEN @
                              ELSE [opened.file EXCEPT !.content = "secret"],
               !.pc = "restore"]
    /\ UNCHANGED outside_sandbox

\* _prepare_context: finally: os.umask(old_umask)
prepare_context_restore ==
    /\ sandbox.pc = "restore"
    /\ sandbox' = [sandbox EXCEPT !.umask = sandbox.old_umask, !.pc = "secrets"]
    /\ UNCHANGED outside_sandbox

\* _prepare_script: open(dest_file, 'wt'), write, os.chmod(dest_file, 0o700)
prepare_script ==
    /\ sandbox.pc = "script"
    /\ sandbox' = [sandbox EXCEPT
           !.script = [created(Mode666, sandbox.umask) EXCEPT
                          !.mode = Mode700, !.content = "program"],
           !.pc = "done"]
    /\ UNCHANGED outside_sandbox

\* Another process of the manager's user makes a file in the secrets
\* directory, under the name of a secret that is not written yet.
secret_precreate(file_name, mode) ==
    /\ sandbox.pc \in {"secrets", "open", "restore"}
    /\ ~sandbox.secrets[file_name].exists
    /\ sandbox' = [sandbox EXCEPT
           !.secrets[file_name] = [exists |-> TRUE, mode |-> mode,
                                   owner |-> "other", content |-> "planted"]]
    /\ UNCHANGED outside_sandbox

SandboxInit ==
    /\ Start
    /\ resolver = NoTable
    /\ manager_module = Imported
    /\ settings_override = NoSettings
    /\ sandbox \in {NewSandbox(umask) : umask \in Umasks}

SandboxNext ==
    \/ prepare_context_makedirs
    \/ \E file_name \in SecretNames \cup {0} : prepare_context_umask(file_name)
    \/ prepare_context_write
    \/ prepare_context_restore
    \/ prepare_script
    \/ \E file_name \in SecretNames, mode \in {Mode666, Mode600} :
           secret_precreate(file_name, mode)

SandboxSpec == SandboxInit /\ [][SandboxNext]_vars

\* -------------------------------------------- construction, reset, drain
\* A construction that checks nothing.
init_unchecked(module, import_error) == "None"

\* __init__, the check for a manager of this process: the import of the package
\* raises ImportError, which is passed over, or the package has the attribute
\* `manager` and the assertion fails, or the construction goes on.
init(module, import_error) ==
    IF import_error THEN "None"
    ELSE IF module.manager THEN "AssertionError"
    ELSE "None"

constructed(module, raised) ==
    IF raised = "None" THEN [module EXCEPT !.instances = @ + 1]
    ELSE [module EXCEPT !.refused = @ + 1]

outside_module ==
    <<shared, channel, status, running, caller, worker, claims, scheduled,
      ncalls, rundir, runtime_dir, records, surroundings, settings_override,
      override_scopes, reset_call, sandbox, engine_data>>

\* The package resolwe.flow.managers is imported: it constructs the manager
\* of the process and binds it to its attribute `manager`. While it does, the
\* package is not complete and its import from __init__ may fail.
managers_import(import_error) ==
    /\ ~manager_module.manager
    /\ manager_module' =
           [constructed(manager_module, init(manager_module, import_error))
               EXCEPT !.manager = TRUE]
    /\ UNCHANGED outside_module

\* Code of the process constructs a manager; it has the class from the
\* package, whose import is over.
construct ==
    /\ manager_module.manager
    /\ manager_module.instances + manager_module.refused <= MaxConstructions
    /\ manager_module' =
           constructed(manager_module, init(manager_module, FALSE))
    /\ UNCHANGED outside_module

\* A drain that leaves the commands where they are.
drained_none(messages) == messages

\* drain(): one turn of the loop takes the oldest command and drops it.
drained(messages) == Tail(messages)

\* reset(): self.state = ManagerState(...); self.state.reset()
reset_state ==
    /\ manager_module.manager
    /\ reset_call.pc = "idle"
    /\ sync_execution' = 0
    /\ sync_semaphore' = 0
    /\ executor_count' = 0
    /\ settings_override' = NoSettings
    /\ reset_call' = [pc |-> "drain", discarded |-> 0]
    /\ UNCHANGED <<channel, status, running, caller, worker, claims, scheduled,
                   ncalls, rundir, runtime_dir, records, surroundings, override_scopes,
                   manager_module, sandbox, engine_data>>

\* reset(): self.drain(), a turn of the loop that gets a command
drain_get ==
    /\ reset_call.pc = "drain"
    /\ channel # <<>>
    /\ channel' = drained(channel)
    /\ reset_call' = [reset_call EXCEPT !.discarded = @ + 1]
    /\ UNCHANGED <<shared, status, running, caller, worker, claims, scheduled,
                   ncalls, rundir, runtime_dir, records, surroundings, settings_override,
                   override_scopes, manager_module, sandbox, engine_data>>

\* reset(): self.drain(), get_next_message gives None and reset() returns
drain_end ==
    /\ reset_call.pc = "drain"
    /\ channel = <<>>
    /\ reset_call' = [reset_call EXCEPT !.pc = "idle"]
    /\ UNCHANGED <<shared, channel, status, running, caller, worker, claims,
                   scheduled, ncalls, rundir, runtime_dir, records, surroundings,
                   settings_override, override_scopes, manager_module, sandbox, engine_data>>

\* ------------------------------------------------------ _SettingsManager
\* An exit that forgets what was saved on entry.
settings_exit_cleared(scope) == NoSettings

\* __enter__: what is remembered and what is stored.
settings_enter(overrides, state_override) ==
    [old_overrides |-> state_override,
     merged |-> update(state_override, overrides)]

\* __exit__: what is stored.
settings_exit(scope) == scope.old_overrides

\* with manager.override_settings(**overrides): on entry
override_enter(overrides) ==
    /\ override_scopes.exc = "None"
    /\ Len(override_scopes.stack) < MaxScopes
    /\ LET e == settings_enter(overrides, settings_override)
       IN  /\ settings_override' = e.merged
           /\ override_scopes' = [override_scopes EXCEPT
                  !.stack = Append(@, [overrides |-> overrides,
                                       old_overrides |-> e.old_overrides])]
    /\ UNCHANGED <<shared, channel, status, running, caller, worker, claims,
                   scheduled, ncalls, rundir, runtime_dir, records, surroundings,
                   reset_call, manager_module, sandbox, engine_data>>

\* The body of the innermost scope raises.
override_body_raise ==
    /\ override_scopes.exc = "None"
    /\ override_scopes.stack # <<>>
    /\ override_scopes' = [override_scopes EXCEPT !.exc = "Exception"]
    /\ UNCHANGED <<shared, channel, status, running, caller, worker, claims,
                   scheduled, ncalls, rundir, runtime_dir, records, surroundings,
                   settings_override, reset_call, manager_module, sandbox, engine_data>>

\* The innermost scope is left, at the end of its body or by an exception:
\* __exit__ restores and returns False, so that an exception goes on to the
\* scope around it.
override_exit ==
    /\ override_scopes.stack # <<>>
    /\ LET n == Len(override_scopes.stack)
       IN  /\ settings_override' = settings_exit(override_scopes.stack[n])
           /\ override_scopes' = [override_scopes EXCEPT
                  !.stack = SubSeq(@, 1, n - 1)]
    /\ UNCHANGED <<shared, channel, status, running, caller, worker, claims,
                   scheduled, ncalls, rundir, runtime_dir, records, surroundings,
                   reset_call, manager_module, sandbox, engine_data>>

\* The threads of a process that each enter and leave one scope of
\* override_settings(), statement by statement.
Threads == 1..NumThreads

outside_scopes ==
    <<shared, channel, status, running, caller, worker, claims, scheduled,
      ncalls, rundir, runtime_dir, records, surroundings, reset_call,
      manager_module, sandbox, engine_data>>

\* What a statement of thread t leaves in the history: the statement is
\* logged, and the first one of all notes the saved overrides it found.
logged(scopes, t, statement) ==
    [scopes EXCEPT
        !.log = Append(@, <<t, statement>>),
        !.before = IF scopes.log = <<>> THEN settings_override ELSE @]

\* __enter__: self.old_overrides = self.state.settings_override
scope_enter_old(t, overrides) ==
    /\ override_scopes.threads[t].pc = "out"
    /\ override_scopes' =
           [logged(override_scopes, t, "old") EXCEPT
               !.threads[t].pc = "old",
               !.threads[t].overrides = overrides,
               !.threads[t].old_overrides = settings_override]
    /\ UNCHANGED <<outside_scopes, settings_override>>

\* __enter__: merged = self.state.settings_override or {}; merged.update(...)
scope_enter_merge(t) ==
    /\ override_scopes.threads[t].pc = "old"
    /\ override_scopes' =
           [logged(override_scopes, t, "merge") EXCEPT
               !.threads[t].pc = "merged",
               !.threads[t].merged =
                   settings_enter(override_scopes.threads[t].overrides,
                                  settings_override).merged]
    /\ UNCHANGED <<outside_scopes, settings_override>>

\* __enter__: self.state.settings_override = merged
scope_enter_store(t) ==
    /\ override_scopes.threads[t].pc = "merged"
    /\ settings_override' = override_scopes.threads[t].merged
    /\ override_scopes' =
           [logged(override_scopes, t, "store") EXCEPT !.threads[t].pc = "in"]
    /\ UNCHANGED outside_scopes

\* An __exit__ that leaves the saved overrides as they are.
scope_exit_kept(t) ==
    /\ override_scopes.threads[t].pc = "in"
    /\ override_scopes' =
           [logged(override_scopes, t, "exit") EXCEPT !.threads[t].pc = "left"]
    /\ UNCHANGED <<outside_scopes, settings_override>>

\* __exit__: self.state.settings_override = self.old_overrides
scope_exit(t) ==
    /\ override_scopes.threads[t].pc = "in"
    /\ settings_override' = settings_exit(override_scopes.threads[t])
    /\ override_scopes' =
           [logged(override_scopes, t, "exit") EXCEPT !.threads[t].pc = "left"]
    /\ UNCHANGED outside_scopes

\* An exception that has left every scope is caught by the code around them.
override_caught ==
    /\ override_scopes.stack = <<>>
    /\ override_scopes.exc = "Exception"
    /\ override_scopes' = [override_scopes EXCEPT !.exc = "None"]
    /\ UNCHANGED <<shared, channel, status, running, caller, worker, claims,
                   scheduled, ncalls, rundir, runtime_dir, records, surroundings,
                   settings_override, reset_call, manager_module, sandbox, engine_data>>

\* A message with a command the manager does not know is put on the channel.
unknown_command(settings) ==
    /\ Len(channel) < MaxCalls
    /\ channel' = Append(channel, Message("unknown", 0, FALSE, settings))
    /\ UNCHANGED <<shared, status, running, caller, worker, claims, scheduled,
                   ncalls, rundir, runtime_dir, records, surroundings, apart,
                   settings_override>>

\* ------------------------------------------------------- a scan that raises
\* What the iteration of a row can raise besides the errors it handles itself:
\* IntegrityError, by the statements that write (data.save(), the objects an
\* evaluation creates), and any other exception (a database error of the
\* locking query, an error of the engine that is not an ExecutionError).
Exceptions == {"IntegrityError", "Exception"}

\* The row of d is one that writes: it is still to be processed and its
\* parents are done, or one of them failed.
row_writes(d) ==
    /\ still_resolving(status[d])
    /\ dependency_status(d) \in {STATUS_DONE, STATUS_ERROR}

\* A scan whose `except` clause is missing: IntegrityError leaves it as any
\* other exception does.
data_scan_raise_uncaught(w, d, exception) ==
    /\ worker[w].pc = "scan"
    /\ d \in worker[w].snapshot
    /\ exception = "IntegrityError" => row_writes(d)
    /\ worker' = [worker EXCEPT
           ![w].snapshot = {}, ![w].exp = exception, ![w].pc = "raise"]
    /\ UNCHANGED <<shared, channel, status, running, caller, claims, scheduled,
                   ncalls, rundir, runtime_dir, records, surroundings, apart,
                   settings_override>>

\* _data_scan: the iteration of the row of d raises.  transaction.atomic()
\* rolls the row back; the loop is left, and with it the rows not yet visited.
\* IntegrityError is logged and the scan returns (`except IntegrityError`), any
\* other exception leaves _data_scan.
data_scan_raise(w, d, exception) ==
    /\ worker[w].pc = "scan"
    /\ d \in worker[w].snapshot
    /\ exception = "IntegrityError" => row_writes(d)
    /\ worker' = [worker EXCEPT
           ![w].snapshot = {}, ![w].exp = exception,
           ![w].pc = IF exception = "IntegrityError" THEN "scan" ELSE "raise"]
    /\ UNCHANGED <<shared, channel, status, running, caller, claims, scheduled,
                   ncalls, rundir, runtime_dir, records, surroundings, apart,
                   settings_override>>

\* ------------------------------------ the transaction of a row, step by step
\* The Data objects an evaluation of d can create.
Children(d) == {<<d, n>> : n \in 1..MaxChildren}

\* Does the iteration get as far as the engine's evaluate(), which can create
\* objects?  Not for a row that is skipped or failed for its inputs, not
\* without a run section, and not when no engine is registered.
evaluates(st, dep_status, evaluation) ==
    /\ still_resolving(st)
    /\ dep_status = STATUS_DONE
    /\ evaluation \in {"program", "done", "ExecutionError"}

\* with transaction.atomic(): Data.objects.select_for_update().get(pk=data.pk).
\* The row lock is given to one transaction at a time.
data_scan_lock(w, d) ==
    /\ worker[w].pc = "scan"
    /\ d \in worker[w].snapshot
    /\ \A o \in Workers : worker[o].transaction.row # d
    /\ worker' = [worker EXCEPT
           ![w].pc = "atomic",
           ![w].transaction = [NoTransaction EXCEPT !.row = d, !.status = status[d]]]
    /\ UNCHANGED <<shared, channel, status, running, caller, claims, scheduled,
                   ncalls, rundir, runtime_dir, records, surroundings, apart,
                   settings_override>>

\* The body of the transaction: the checks, the evaluation, which may create
\* objects, data.save() and transaction.on_commit(...). What it writes is
\* the transaction's until the commit.
data_scan_body(w, evaluation, children) ==
    /\ worker[w].pc = "atomic"
    /\ LET d == worker[w].transaction.row
           r == scan_row(status[d], dependency_status(d), evaluation)
       IN  /\ children \subseteq Children(d)
           /\ ~evaluates(status[d], dependency_status(d), evaluation)
                  => children = {}
           /\ worker' = [worker EXCEPT
                  ![w].pc = "save",
                  ![w].transaction =
                      [row |-> d, status |-> r.status, error |-> r.error,
                       rc |-> r.rc, execute |-> r.execute,
                       program |-> r.execute /\ evaluation # "empty",
                       children |-> children]]
    /\ UNCHANGED <<shared, channel, status, running, caller, claims, scheduled,
                   ncalls, rundir, runtime_dir, records, surroundings, apart,
                   settings_override>>

\* A commit that runs the hook of a transaction whatever became of it.
on_commit_always(t, committed) == t.execute

\* transaction.on_commit: the hook is run when the transaction has committed,
\* and dropped when it is rolled back.
on_commit(t, committed) == committed /\ t.execute

\* An evaluation whose objects are written outside the transaction.
created_data_autocommit(t, committed) == t.children

\* The objects of the evaluation that the end of the transaction makes
\* visible: all of them when it commits, none when it is rolled back.
created_data(t, committed) == IF committed THEN t.children ELSE {}

\* The transaction ends, the lock is released.  Committed, its writes become
\* visible, the row and the objects the evaluation created, and its hook runs
\* _data_execute; rolled back, they are dropped.
transaction_end(w, committed) ==
    LET t == worker[w].transaction
        d == t.row
        hook == on_commit(t, committed)
    IN  /\ status' = IF committed THEN [status EXCEPT ![d] = t.status] ELSE status
        /\ process_error' = IF committed
                             THEN [process_error EXCEPT ![d] = @ \o t.error]
                             ELSE process_error
        /\ process_rc' = IF committed /\ t.rc # "keep"
                          THEN [process_rc EXCEPT ![d] = t.rc] ELSE process_rc
        /\ engine_data' = engine_data \cup created_data(t, committed)
        /\ scheduled' = [scheduled EXCEPT ![d] = IF hook THEN @ + 1 ELSE @]
        /\ UNCHANGED <<shared, channel, running, caller, claims, ncalls, rundir,
                       runtime_dir, surroundings, settings_override,
                       override_scopes, reset_call, manager_module, sandbox>>

\* The block of transaction.atomic() is left without an exception.
data_scan_commit(w) ==
    /\ worker[w].pc = "save"
    /\ transaction_end(w, TRUE)
    /\ LET t == worker[w].transaction
       IN  worker' = [worker EXCEPT
               ![w].snapshot = @ \ {t.row},
               ![w].pc = IF on_commit(t, TRUE) THEN "execute" ELSE "scan",
               ![w].data = IF on_commit(t, TRUE) THEN t.row ELSE @,
               ![w].program = t.program,
               ![w].transaction = NoTransaction]

\* The block of transaction.atomic() is left by an exception, which a write
\* raised (IntegrityError) or anything else in the block.
data_scan_rollback(w, exception) ==
    /\ worker[w].pc \in {"atomic", "save"}
    /\ exception = "IntegrityError"
           => /\ worker[w].pc = "save"
              /\ \/ worker[w].transaction.status # status[worker[w].transaction.row]
                 \/ worker[w].transaction.children # {}
    /\ transaction_end(w, FALSE)
    /\ worker' = [worker EXCEPT
           ![w].snapshot = {}, ![w].exp = exception,
           ![w].pc = IF on_commit(worker[w].transaction, FALSE) THEN "execute"
                     ELSE IF exception = "IntegrityError" THEN "scan" ELSE "raise",
           ![w].data = IF on_commit(worker[w].transaction, FALSE)
                       THEN worker[w].transaction.row ELSE @,
           ![w].program = on_commit(worker[w].transaction, FALSE)
                          /\ worker[w].transaction.program,
           ![w].transaction = NoTransaction]

\* The worker after an exception has left handle_control_event.
Raised(r) == [IdleWorker EXCEPT !.pc = "raised", !.cmd = r.cmd, !.exp = r.exp,
                                !.data_id = r.data_id, !.spawned = r.spawned]

\* A handler without finally clauses.
handle_control_event_raise_kept(w) ==
    /\ worker[w].pc = "raise"
    /\ worker' = [worker EXCEPT ![w] = Raised(worker[w])]
    /\ UNCHANGED <<shared, channel, status, running, caller, claims, scheduled,
                   ncalls, rundir, runtime_dir, records, surroundings, apart,
                   settings_override>>

\* handle_control_event while an exception of _data_scan passes through it:
\* the finally clause clears the claim the scan was run under, and the
\* exception leaves the handler; for FINISH the two statements after the
\* follow-up scan are not reached.
handle_control_event_raise(w) ==
    /\ worker[w].pc = "raise"
    /\ sync_semaphore' = sync_semaphore - 1
    /\ claims' = Down(claims, IF worker[w].cmd = FINISH THEN "follow" ELSE "comm")
    /\ worker' = [worker EXCEPT ![w] = Raised(worker[w])]
    /\ UNCHANGED <<sync_execution, executor_count, channel, status, running,
                   caller, scheduled, ncalls, rundir, runtime_dir, records, surroundings,
                   apart, settings_override>>

\* The consumer loop of the channel layer goes on after a handler that raised.
consumer_resume(w) ==
    /\ worker[w].pc = "raised"
    /\ worker' = [worker EXCEPT ![w] = IdleWorker]
    /\ UNCHANGED <<shared, channel, status, running, caller, claims, scheduled,
                   ncalls, rundir, runtime_dir, records, surroundings, apart,
                   settings_override>>

\* ------------------------------------------------------------ executors
\* run(): the executor started for d ends, having set the object's status, and
\* its FINISH appears on the control channel, once.
executor_finish(d, st, spawned) ==
    /\ d \in running
    /\ running' = running \ {d}
    /\ status' = [status EXCEPT ![d] = st]
    /\ channel' = Append(channel, Message(FINISH, d, spawned, NoSettings))
    /\ caller' = NoteFinish(caller)
    /\ UNCHANGED <<shared, worker, claims, scheduled, ncalls,
                   rundir, runtime_dir, records, surroundings, apart, settings_override>>

\* An executor leaves an entry in its runtime directory, in a directory that
\* does not allow removing it.
executor_seal(d) ==
    /\ d \in running
    /\ rundir[d] = "built"
    /\ rundir' = [rundir EXCEPT ![d] = "sealed"]
    /\ runtime_dir' = runtime_dir
    /\ UNCHANGED <<shared, channel, status, running, caller, worker, claims,
                   scheduled, ncalls, records, surroundings, apart, settings_override>>

\* -------------------------------------------------------- the surroundings
\* The host configurations: FLOW_MANAGER_KEEP_DATA is not set, or set to True.
HostConfigurations ==
    {NoSettings, [k \in {FLOW_MANAGER_KEEP_DATA} |-> TRUE]}

\* The Django settings change (a deployment is reconfigured, a test enters or
\* leaves django.test.override_settings).
settings_change(configuration) ==
    /\ configuration # django_settings
    /\ django_settings' = configuration
    /\ UNCHANGED <<shared, channel, status, running, caller, worker, claims,
                   scheduled, ncalls, rundir, runtime_dir, records, orphaned, resolver,
                   settings_override, apart>>

\* A further IO parent of d, which was done, is deleted: its row of
\* DataDependency is left with a null parent.
parent_delete(d) ==
    /\ d \notin orphaned
    /\ orphaned' = orphaned \cup {d}
    /\ UNCHANGED <<shared, channel, status, running, caller, worker, claims,
                   scheduled, ncalls, rundir, runtime_dir, records, django_settings, resolver,
                   settings_override, apart>>

\* ------------------------------------------------------------ the resolver
\* dependency_status on a table of DataDependency rows of one child.
Tables == UNION {[1..n -> Edges] : n \in 0..MaxEdges}

manager_vars ==
    <<sync_execution, sync_semaphore, executor_count, channel, status, running,
      caller, worker, rundir, runtime_dir, process_error, process_rc, orphaned,
      django_settings, settings_override, claims, scheduled, ncalls,
      override_scopes, reset_call, manager_module, sandbox, engine_data>>

resolve ==
    /\ resolver.result = "unset"
    /\ resolver' = [resolver EXCEPT
           !.result = dependency_status_of(parents_statuses(resolver.edges))]
    /\ UNCHANGED manager_vars

\* A row is added for a further parent, with a status some IO parent has.
repeat_parent(i) ==
    /\ Len(resolver.edges) <= MaxEdges
    /\ i \in DOMAIN resolver.edges
    /\ resolver.edges[i].kind = KIND_IO
    /\ resolver' = [resolver EXCEPT !.edges = Append(@, resolver.edges[i])]
    /\ UNCHANGED manager_vars

\* A row of another kind than IO is added.
add_edge(parent_status) ==
    /\ Len(resolver.edges) <= MaxEdges
    /\ resolver' = [resolver EXCEPT
           !.edges = Append(@, Edge(KIND_SUBPROCESS, parent_status))]
    /\ UNCHANGED manager_vars

\* A row of another kind than IO is removed.
remove_edge(i) ==
    /\ i \in DOMAIN resolver.edges
    /\ resolver.edges[i].kind # KIND_IO
    /\ resolver' = [resolver EXCEPT
           !.edges = [j \in 1..(Len(@) - 1) |-> IF j < i THEN @[j] ELSE @[j + 1]]]
    /\ UNCHANGED manager_vars

ResolverInit ==
    /\ Start
    /\ resolver \in [edges : Tables, result : {"unset"}]
    /\ manager_module = Imported
    /\ settings_override = NoSettings
    /\ sandbox = NoSandbox

ResolverNext ==
    \/ resolve
    \/ \E i \in 1..(MaxEdges + 1) : repeat_parent(i)
    \/ \E parent_status \in Statuses \cup {"None"} : add_edge(parent_status)
    \/ \E i \in 1..(MaxEdges + 1) : remove_edge(i)

ResolverSpec == ResolverInit /\ [][ResolverNext]_vars

\* ------------------------------------------------------------------ Spec
CallerNext(c) ==
    \/ \E run_sync \in BOOLEAN : communicate(c, run_sync)
    \/ \E save_settings \in BOOLEAN : communicate_send(c, save_settings)
    \/ \E force_enter \in BOOLEAN : synchronized(c, force_enter)
    \/ \E force_enter \in BOOLEAN : execution_barrier(c, force_enter)
    \/ communicate_sync_enter(c)
    \/ body_communicate(c)
    \/ sync_exit_wait(c)
    \/ sync_exit_cas(c)

WorkerNext(w) ==
    \/ handle_control_event(w)
    \/ data_scan_query(w)
    \/ \E d \in DataIds, evaluation \in Evaluations : data_scan_row(w, d, evaluation)
    \/ \E preparation \in Preparations : data_execute(w, preparation)
    \/ data_execute_run(w)
    \/ data_scan_end(w)
    \/ finish_count(w)
    \/ finish_sema(w)

ExecutorNext ==
    \E d \in DataIds, st \in {STATUS_DONE, STATUS_ERROR}, spawned \in BOOLEAN :
        executor_finish(d, st, spawned)

Next ==
    \/ \E c \in Callers : CallerNext(c)
    \/ \E w \in Workers : WorkerNext(w)
    \/ ExecutorNext

Spec == Init /\ [][Next]_vars

\* The scheduling the program runs under: every worker goes on with the message
\* it handles, every executor ends, a caller goes on with the call it is in.
Fairness ==
    /\ \A w \in Workers : WF_vars(WorkerNext(w))
    /\ \A d \in DataIds :
           WF_vars(\E st \in {STATUS_DONE, STATUS_ERROR}, spawned \in BOOLEAN :
                       executor_finish(d, st, spawned))
    /\ \A c \in Callers :
           WF_vars(\/ \E save_settings \in BOOLEAN : communicate_send(c, save_settings)
                   \/ communicate_sync_enter(c)
                   \/ body_communicate(c) \/ sync_exit_wait(c) \/ sync_exit_cas(c))

\* One manager: a single worker takes the messages off the channel, one at a time.
NextOneManager ==
    \/ \E c \in Callers : CallerNext(c)
    \/ WorkerNext(1)
    \/ ExecutorNext

FairOneManager == Init /\ [][NextOneManager]_vars /\ Fairness

\* One manager in its surroundings: one caller of communicate(), one worker
\* and the executors, while the host configuration changes, parents are
\* deleted and executors leave entries that cannot be removed.
FlowNext ==
    \/ communicate(1, FALSE)
    \/ \E save_settings \in BOOLEAN : communicate_send(1, save_settings)
    \/ WorkerNext(1)
    \/ ExecutorNext
    \/ \E d \in DataIds : executor_seal(d)
    \/ \E configuration \in HostConfigurations : settings_change(configuration)
    \/ \E d \in DataIds : parent_delete(d)

FlowSpec == Init /\ [][FlowNext]_vars

\* The settings: one caller of communicate(), one worker and the executors of
\* objects that have a program, while the host configuration changes and
\* unknown commands arrive.
SettingsNext ==
    \/ communicate(1, FALSE)
    \/ \E save_settings \in BOOLEAN : communicate_send(1, save_settings)
    \/ handle_control_event(1)
    \/ data_scan_query(1)
    \/ \E d \in DataIds : data_scan_row(1, d, "program")
    \/ data_execute(1, "ok")
    \/ data_execute_run(1)
    \/ data_scan_end(1)
    \/ finish_count(1)
    \/ finish_sema(1)
    \/ \E d \in DataIds : executor_finish(d, STATUS_DONE, FALSE)
    \/ \E configuration \in Configurations : settings_change(configuration)
    \/ \E settings \in Configurations : unknown_command(settings)

SettingsSpec == Init /\ [][SettingsNext]_vars

\* The scopes of override_settings(), entered and left by a thread that also
\* calls communicate(), while the host configuration changes.
ScopeNext ==
    \/ communicate(1, FALSE)
    \/ \E save_settings \in BOOLEAN : communicate_send(1, save_settings)
    \/ \E configuration \in Configurations : settings_change(configuration)
    \/ \E overrides \in Overrides : override_enter(overrides)
    \/ override_body_raise
    \/ override_exit
    \/ override_caught

ScopeSpec == Init /\ [][ScopeNext]_vars

\* Spawned work: every object has a program and gets its sandbox, the executor
\* of the first object ends well and reports spawned work, which the second
\* object, its child, stands for.
SpawnNext ==
    \/ \E c \in Callers : communicate(c, FALSE)
    \/ \E c \in Callers : communicate_send(c, TRUE)
    \/ \E w \in Workers : handle_control_event(w)
    \/ \E w \in Workers : data_scan_query(w)
    \/ \E w \in Workers, d \in DataIds : data_scan_row(w, d, "program")
    \/ \E w \in Workers : data_execute(w, "ok")
    \/ \E w \in Workers : data_execute_run(w)
    \/ \E w \in Workers : data_scan_end(w)
    \/ \E w \in Workers : finish_count(w)
    \/ \E w \in Workers : finish_sema(w)
    \/ executor_finish(1, STATUS_DONE, TRUE)
    \/ \E st \in {STATUS_DONE, STATUS_ERROR} : executor_finish(2, st, FALSE)

SpawnSpec == Init /\ [][SpawnNext]_vars

\* The managers when scans can raise: callers of communicate(), the workers
\* and the executors, while parents are deleted.
FaultNext ==
    \/ \E c \in Callers : communicate(c, FALSE)
    \/ \E c \in Callers : communicate_send(c, TRUE)
    \/ \E w \in Workers : WorkerNext(w)
    \/ \E w \in Workers, d \in DataIds, exception \in Exceptions :
           data_scan_raise(w, d, exception)
    \/ \E w \in Workers : handle_control_event_raise(w)
    \/ \E w \in Workers : consumer_resume(w)
    \/ ExecutorNext
    \/ \E d \in DataIds : parent_delete(d)

FaultSpec == Init /\ [][FaultNext]_vars

\* The saved settings: a thread that calls communicate(), with and without
\* saving, and enters and leaves scopes of override_settings(), while a worker
\* handles the commands and the executors finish.
SavedNext ==
    \/ communicate(1, FALSE)
    \/ \E save_settings \in BOOLEAN : communicate_send(1, save_settings)
    \/ \E overrides \in Overrides : override_enter(overrides)
    \/ override_exit
    \/ handle_control_event(1)
    \/ data_scan_query(1)
    \/ \E d \in DataIds : data_scan_row(1, d, "program")
    \/ data_execute(1, "ok")
    \/ data_execute_run(1)
    \/ data_scan_end(1)
    \/ finish_count(1)
    \/ finish_sema(1)
    \/ \E d \in DataIds : executor_finish(d, STATUS_DONE, FALSE)

SavedSpec == Init /\ [][SavedNext]_vars

\* The runtime directories: a thread inside scopes of override_settings() that
\* set RUNTIME_DIR calls communicate(), with and without saving, while a
\* worker handles the commands and the executors finish.
Directories ==
    {[k \in {FLOW_EXECUTOR} |-> "run_a"], [k \in {FLOW_EXECUTOR} |-> "run_b"]}

PathNext ==
    \/ communicate(1, FALSE)
    \/ \E save_settings \in BOOLEAN : communicate_send(1, save_settings)
    \/ \E overrides \in Directories : override_enter(overrides)
    \/ override_exit
    \/ handle_control_event(1)
    \/ data_scan_query(1)
    \/ \E d \in DataIds : data_scan_row(1, d, "program")
    \/ data_execute(1, "ok")
    \/ data_execute_run(1)
    \/ data_scan_end(1)
    \/ finish_count(1)
    \/ finish_sema(1)
    \/ \E d \in DataIds : executor_finish(d, STATUS_DONE, FALSE)

PathSpec == Init /\ [][PathNext]_vars

\* The scopes of override_settings() of several threads, over saved overrides
\* that an earlier communicate() may have left.
ThreadsInit ==
    /\ Start
    /\ resolver = NoTable
    /\ manager_module = Imported
    /\ sandbox = NoSandbox
    /\ settings_override \in {NoSettings, [k \in {FLOW_MANAGER_KEEP_DATA} |-> TRUE]}

ThreadsNext ==
    \/ \E t \in Threads, overrides \in Overrides : scope_enter_old(t, overrides)
    \/ \E t \in Threads : scope_enter_merge(t)
    \/ \E t \in Threads : scope_enter_store(t)
    \/ \E t \in Threads : scope_exit(t)

ThreadsSpec == ThreadsInit /\ [][ThreadsNext]_vars

\* The transactions: the callers and the workers as before, the iteration of a
\* row taken statement by statement, with evaluations that create objects
\* and exceptions that roll the transaction back.
TransactionNext ==
    \/ communicate(1, FALSE)
    \/ communicate_send(1, TRUE)
    \/ \E w \in Workers : handle_control_event(w)
    \/ \E w \in Workers : data_scan_query(w)
    \/ \E w \in Workers, d \in DataIds : data_scan_lock(w, d)
    \/ \E w \in Workers, evaluation \in Evaluations, d \in DataIds :
           \E children \in SUBSET Children(d) : data_scan_body(w, evaluation, children)
    \/ \E w \in Workers : data_scan_commit(w)
    \/ \E w \in Workers, exception \in Exceptions : data_scan_rollback(w, exception)
    \/ \E w \in Workers : data_execute(w, "ok")
    \/ \E w \in Workers : data_execute_run(w)
    \/ \E w \in Workers : data_scan_end(w)
    \/ \E w \in Workers : finish_count(w)
    \/ \E w \in Workers : finish_sema(w)
    \/ \E w \in Workers : handle_control_event_raise(w)
    \/ \E w \in Workers : consumer_resume(w)
    \/ \E d \in DataIds : executor_finish(d, STATUS_DONE, FALSE)

TransactionSpec == Init /\ [][TransactionNext]_vars

\* The life of the manager in a process: the package is imported, code
\* constructs further managers and calls reset(), while a caller of
\* communicate(), a worker and the executors go on.
LifecycleInit ==
    /\ Start
    /\ resolver = NoTable
    /\ manager_module = Importing
    /\ settings_override = NoSettings
    /\ sandbox = NoSandbox

\* A caller has the manager of the process from the package, once imported.
manager_communicate ==
    /\ manager_module.manager
    /\ communicate(1, FALSE)

ServingNext ==
    \/ manager_communicate
    \/ communicate_send(1, TRUE)
    \/ handle_control_event(1)
    \/ data_scan_query(1)
    \/ \E d \in DataIds : data_scan_row(1, d, "program")
    \/ data_execute(1, "ok")
    \/ data_execute_run(1)
    \/ data_scan_end(1)
    \/ finish_count(1)
    \/ finish_sema(1)
    \/ \E d \in DataIds : executor_finish(d, STATUS_DONE, FALSE)

LifecycleNext ==
    \/ \E import_error \in BOOLEAN : managers_import(import_error)
    \/ construct
    \/ reset_state
    \/ drain_get
    \/ drain_end
    \/ ServingNext

LifecycleSpec == LifecycleInit /\ [][LifecycleNext]_vars

\* ======================================================= the properties
InScope(c) == Inside(caller[c])

\* The step of c in which the wait loop of __exit__ ends.
WaitEnds(c) == caller[c].pc # "exit_cas" /\ caller'[c].pc = "exit_cas"

\* The step of c in which __exit__ ends, by returning or by its assertion.
ScopeExits(c) == caller[c].pc = "exit_cas" /\ caller'[c].pc = "idle"

\* No command is pending or being handled and no executor is running.
Drained ==
    /\ channel = <<>>
    /\ \A w \in Workers : worker[w].pc = "idle"
    /\ running = {}

\* Drained, and no caller is between its claim and its send.
Quiescent == Drained /\ \A c \in Callers : caller[c].pc # "send"

\* C1: right after a synchronization scope has exited, sync_execution is 0, and
\* sync_semaphore is 0 unless communicate() was called since the wait loop ended.
C1_ExitLeavesZero ==
    [][\A c \in Callers :
          ScopeExits(c) =>
              /\ sync_execution' = 0
              /\ ~caller[c].dirty => sync_semaphore' = 0]_vars

\* C1 witness: an execution_barrier() has returned after an executor it waited
\* for has finished.
C1_Witness ==
    \E c \in Callers :
        /\ caller[c].pc = "idle" /\ caller[c].op = "execution_barrier"
        /\ caller[c].res = "returned"
        /\ caller[c].fin
        /\ sync_semaphore = 0 /\ sync_execution = 0

\* C2: _data_execute is scheduled at most once for a Data object, and only by
\* the step that takes the object out of RESOLVING; a scanner that finds the
\* locked row no longer RESOLVING leaves it as it is.
C2_ScheduledOnce ==
    /\ [](\A d \in DataIds : scheduled[d] <= 1)
    /\ [][\A d \in DataIds :
             /\ scheduled'[d] # scheduled[d] =>
                    status[d] = STATUS_RESOLVING /\ status'[d] # STATUS_RESOLVING
             /\ \A w \in Workers :
                    (/\ worker[w].pc = "scan"
                     /\ d \in worker[w].snapshot /\ d \notin worker'[w].snapshot
                     /\ status[d] # STATUS_RESOLVING)
                    => /\ status' = status /\ scheduled' = scheduled
                       /\ worker'[w].pc = "scan"]_vars

\* C2 witness: a scanner holds an object in its snapshot that another scanner has
\* already scheduled.
C2_Witness ==
    \E w \in Workers, d \in DataIds :
        /\ worker[w].pc = "scan" /\ d \in worker[w].snapshot
        /\ scheduled[d] = 1 /\ status[d] = STATUS_WAITING

C5_ExitAfterExecutors ==
    [][\A c \in Callers : WaitEnds(c) => Drained /\ executor_count = 0]_vars

\* C5 witness: a caller waits in __exit__ while an executor runs that was
\* already running when the scope was entered.
C5_Witness ==
    \E c \in Callers :
        /\ caller[c].pc = "exit" /\ running # {}
        /\ ~caller[c].fin /\ claims.comm = 0 /\ status[1] = STATUS_WAITING

\* A non-forced entry into the synchronization scope by caller c.
NonForcedEntry(c) ==
    \/ synchronized(c, FALSE)
    \/ execution_barrier(c, FALSE)
    \/ communicate_sync_enter(c)

\* Caller c is in execution_barrier() or communicate(run_sync=True).
IsBarrier(c) == caller[c].op \in {"execution_barrier", "communicate_sync"}

\* C6: while another caller holds a synchronization scope (sync_execution = 1), a
\* non-forced entry fails with the RuntimeError "Only one user at a time may
\* enter a synchronization transaction" and leaves the shared state unchanged.
C6_SecondEntryFails ==
    [][\A c \in Callers :
          (/\ NonForcedEntry(c)
           /\ sync_execution = 1
           /\ \E o \in Callers \ {c} : InScope(o))
          => /\ caller'[c].res = "RuntimeError"
             /\ ~Inside(caller'[c])
             /\ shared' = shared]_vars

\* C7: with sync_execution = 0 a non-forced entry succeeds and sets
\* sync_execution to 1, and at most one caller that entered without force is
\* inside the scope at any time.
C7_FirstEntrySucceeds ==
    /\ [][\A c \in Callers :
             (NonForcedEntry(c) /\ sync_execution = 0)
             => /\ Inside(caller'[c])
                /\ caller'[c].res # "RuntimeError"
                /\ sync_execution' = 1]_vars
    /\ [](Cardinality({c \in Callers : InScope(c) /\ ~caller[c].force}) <= 1)

RowStep(w, d) ==
    /\ worker[w].pc = "scan"
    /\ d \in worker[w].snapshot
    /\ d \notin worker'[w].snapshot

\* The step in which a worker takes a FINISH for d off the channel.
TakesFinish(d) ==
    /\ channel # <<>>
    /\ channel' = Tail(channel)
    /\ Head(channel).cmd = FINISH
    /\ Head(channel).data_id = d

\* The executors that are counted: those being handed to run(), those running,
\* and those whose FINISH is pending or being handled.
Executors ==
    Cardinality({w \in Workers : worker[w].pc = "run"})
        + Cardinality(running)
        + Cardinality({i \in DOMAIN channel : channel[i].cmd = FINISH})
        + Cardinality({w \in Workers :
              worker[w].cmd = FINISH /\ worker[w].pc \notin {"idle", "finish_sema"}})

\* C11: sync_semaphore is never negative: it is the number of claims set and not
\* yet cleared, and of no kind of claim more have been cleared than were set.
C11_SemaphoreNonNegative ==
    /\ sync_semaphore >= 0
    /\ claims.comm >= 0 /\ claims.exec >= 0 /\ claims.follow >= 0
    /\ sync_semaphore = claims.comm + claims.exec + claims.follow

\* C11 witness: the semaphore is back at 0 after claims of all three kinds, while
\* a caller waits in __exit__.
C11_Witness ==
    /\ sync_semaphore = 0
    /\ claims.cleared = {"comm", "exec", "follow"}
    /\ \E c \in Callers : caller[c].pc = "exit"

C13_RuntimeDirRemoved ==
    [][\A d \in DataIds :
          (/\ TakesFinish(d)
           /\ ~keep_data(settings_actual(django_settings, settings_override, NoSettings)))
          => rundir'[d] = "absent"]_vars

\* C14: when FLOW_MANAGER_KEEP_DATA is true in the effective settings, whichever
\* layer it comes from, handling FINISH leaves the runtime directory in place,
\* and executor_count and sync_semaphore are still decremented.
C14_KeepDataKeeps ==
    [][/\ \A d \in DataIds :
             (/\ TakesFinish(d)
              /\ keep_data(settings_actual(django_settings, settings_override, NoSettings)))
             => rundir'[d] = rundir[d]
       /\ \A w \in Workers :
             /\ (worker[w].pc = "finish" /\ worker'[w].pc = "finish_sema")
                 => executor_count' = executor_count - 1
             /\ (worker[w].pc = "finish_sema" /\ worker'[w].pc = "idle")
                 => sync_semaphore' = sync_semaphore - 1]_vars

\* What the claim gives for a table: the statuses of the IO parents decide.
IOEdges(edges) == {i \in DOMAIN edges : edges[i].kind = KIND_IO}

ExpectedStatus(edges) ==
    IF IOEdges(edges) = {} THEN STATUS_DONE
    ELSE IF \E i \in IOEdges(edges) : edges[i].parent_status = "None"
         THEN STATUS_ERROR
    ELSE IF \E i \in IOEdges(edges) : edges[i].parent_status = STATUS_ERROR
         THEN STATUS_ERROR
    ELSE IF \A i \in IOEdges(edges) : edges[i].parent_status = STATUS_DONE
         THEN STATUS_DONE
    ELSE "None"

\* C15: dependency_status gives DONE without IO parents, ERROR when an IO parent
\* was deleted or is in ERROR, DONE when all IO parents are DONE, and None
\* (pending) otherwise.
C15_DependencyStatus ==
    [][(resolver.result = "unset" /\ resolver'.result # "unset")
       => resolver'.result = ExpectedStatus(resolver.edges)]_vars

\* C15 witness: DONE and WAITING parents give pending.
C15_Witness ==
    /\ resolver.result = "None"
    /\ \E i \in IOEdges(resolver.edges) : resolver.edges[i].parent_status = STATUS_DONE
    /\ \E i \in IOEdges(resolver.edges) : resolver.edges[i].parent_status = STATUS_WAITING

\* C16: what dependency_status gave for a table is what it gives after rows have
\* been added that repeat the status of an IO parent and rows of another kind
\* have been added or removed; without IO parents it gives DONE.
C16_OnlyIOStatusSet ==
    resolver.result # "unset" =>
        /\ resolver.result = dependency_status_of(parents_statuses(resolver.edges))
        /\ IOEdges(resolver.edges) = {} => resolver.result = STATUS_DONE

\* C16 witness: the result DONE stands with a DONE parent repeated and a parent
\* of another kind in ERROR.
C16_Witness ==
    /\ resolver.result = STATUS_DONE
    /\ Cardinality(IOEdges(resolver.edges)) >= 2
    /\ \E i \in DOMAIN resolver.edges :
           /\ resolver.edges[i].kind = KIND_SUBPROCESS
           /\ resolver.edges[i].parent_status = STATUS_ERROR

\* d has an IO parent that is in ERROR or was deleted.
InputFailed(d) == d \in orphaned \/ \E p \in Parents(d) : status[p] = STATUS_ERROR

\* C17: a scan that finds a RESOLVING object with an IO parent in ERROR or
\* deleted sets it to ERROR, appends 'One or more inputs have status ERROR' to
\* process_error and sets process_rc to 1; no executor is scheduled and no
\* sandbox built for it, then or later.
C17_FailedInputs ==
    /\ [][\A w \in Workers, d \in DataIds :
             (RowStep(w, d) /\ status[d] = STATUS_RESOLVING /\ InputFailed(d))
             => /\ status'[d] = STATUS_ERROR
                /\ process_error'[d] = Append(process_error[d], INPUTS_ERROR)
                /\ process_rc'[d] = "1"
                /\ scheduled' = scheduled /\ rundir' = rundir /\ shared' = shared
                /\ worker'[w].pc = "scan"]_vars
    /\ [](\A d \in DataIds :
             process_error[d] = <<INPUTS_ERROR>>
             => scheduled[d] = 0 /\ rundir[d] = "absent" /\ d \notin running)

\* C17 witness: the first object failed for a deleted parent, the second for its
\* parent in ERROR.
C17_Witness ==
    /\ 1 \in orphaned /\ 2 \notin orphaned
    /\ \A d \in {1, 2} :
           /\ status[d] = STATUS_ERROR
           /\ process_error[d] = <<INPUTS_ERROR>>
           /\ process_rc[d] = "1"

\* The IO parents of d are there and not in ERROR, and not all are DONE.
InputPending(d) ==
    /\ ~InputFailed(d)
    /\ \E p \in Parents(d) : status[p] # STATUS_DONE

\* All IO parents of d, of which there are some, are DONE.
InputDone(d) ==
    /\ d \notin orphaned
    /\ Parents(d) # {}
    /\ \A p \in Parents(d) : status[p] = STATUS_DONE

\* C18: a scan leaves a RESOLVING object with a pending IO parent as it is: its
\* row, the sandboxes and the counters do not change; a scan that finds all its
\* parents DONE takes it out of RESOLVING and, unless its evaluation fails,
\* schedules it.
C18_PendingInputs ==
    [][\A w \in Workers, d \in DataIds :
          /\ (RowStep(w, d) /\ status[d] = STATUS_RESOLVING /\ InputPending(d))
             => /\ status' = status /\ process_error' = process_error
                /\ process_rc' = process_rc
                /\ rundir' = rundir /\ shared' = shared /\ scheduled' = scheduled
                /\ worker'[w].pc = "scan"
          /\ (RowStep(w, d) /\ status[d] = STATUS_RESOLVING /\ InputDone(d))
             => /\ status'[d] # STATUS_RESOLVING
                /\ status'[d] # STATUS_ERROR
                   => /\ scheduled'[d] = scheduled[d] + 1
                      /\ worker'[w].pc = "execute"]_vars

\* C18 witness: a scan has been through all its rows and has left the second
\* object RESOLVING, its parent being WAITING.
C18_Witness ==
    \E w \in Workers :
        /\ worker[w].pc = "scan" /\ worker[w].snapshot = {}
        /\ status[1] = STATUS_WAITING /\ status[2] = STATUS_RESOLVING
        /\ process_error[2] = <<>> /\ rundir[2] = "absent"

\* C19: when the engine raises an evaluation error, or no engine is registered
\* for the language, the object is set to ERROR with 'Error in process script: '
\* appended to process_error, no executor is scheduled for it, and the scan
\* goes on with the remaining objects.
C19_EvaluationError ==
    [][\A w \in Workers, d \in DataIds :
          \A evaluation \in {"ExecutionError", "InvalidEngineError"} :
              (/\ RowStep(w, d)
               /\ status[d] = STATUS_RESOLVING
               /\ dependency_status(d) = STATUS_DONE
               /\ data_scan_row(w, d, evaluation))
              => /\ status'[d] = STATUS_ERROR
                 /\ process_error'[d] = Append(process_error[d], SCRIPT_ERROR)
                 /\ scheduled' = scheduled /\ rundir' = rundir /\ shared' = shared
                 /\ worker'[w].pc = "scan"
                 /\ worker'[w].snapshot = worker[w].snapshot \ {d}]_vars

\* C19 witness: the first object failed in its evaluation and the scan has the
\* second object still to handle.
C19_Witness ==
    \E w \in Workers :
        /\ worker[w].pc = "scan" /\ 2 \in worker[w].snapshot
        /\ status[1] = STATUS_ERROR /\ process_error[1] = <<SCRIPT_ERROR>>
        /\ scheduled[1] = 0

\* C20: when building the sandbox raises OSError, no executor is launched, the
\* counters do not change, and the object remains RESOLVING for a later scan.
C20_OSErrorLeavesResolving ==
    [][\A w \in Workers :
          \A preparation \in {"OSError", "OSError_context"} :
              (/\ worker[w].pc = "execute" /\ worker[w].program
               /\ data_execute(w, preparation))
              => /\ shared' = shared /\ running' = running
                 /\ worker'[w].pc = "scan"
                 /\ status'[worker[w].data] = STATUS_RESOLVING]_vars

\* C21: when PermissionDenied is raised while the environment of an executor
\* is prepared, the object is set to ERROR with 'Permission denied for process: '
\* appended to process_error, run() is not invoked, executor_count and
\* sync_semaphore are not incremented, and the scan goes on with the
\* remaining objects.
C21_PermissionDenied ==
    [][\A w \in Workers :
          (/\ worker[w].pc = "execute" /\ worker[w].program
           /\ data_execute(w, "PermissionDenied"))
          => /\ status'[worker[w].data] = STATUS_ERROR
             /\ process_error'[worker[w].data] =
                    Append(process_error[worker[w].data], PERMISSION_ERROR)
             /\ shared' = shared /\ running' = running /\ claims' = claims
             /\ worker'[w].pc = "scan"
             /\ worker'[w].snapshot = worker[w].snapshot]_vars

\* C21 witness: the first object was denied its environment, nothing runs, and
\* the scan has the second object still to handle.
C21_Witness ==
    \E w \in Workers :
        /\ worker[w].pc = "scan" /\ 2 \in worker[w].snapshot
        /\ status[1] = STATUS_ERROR /\ process_error[1] = <<PERMISSION_ERROR>>
        /\ scheduled[1] = 1 /\ running = {} /\ executor_count = 0

\* The step in which the scan of worker w is ended by an IntegrityError of the
\* row of d.
IntegrityStep(w, d) ==
    /\ worker[w].pc = "scan"
    /\ d \in worker[w].snapshot
    /\ worker'[w].exp = "IntegrityError"
    /\ data_scan_raise(w, d, "IntegrityError")

\* C22: an IntegrityError during a scan ends that pass without leaving
\* _data_scan as an exception: the objects not yet visited stay as they are, in
\* RESOLVING, the objects committed earlier in the pass keep their status and
\* their executors, and the handler goes on to the debit of the semaphore,
\* which is the next thing it does.
C22_IntegrityErrorEndsPass ==
    [][\A w \in Workers :
          /\ \A d \in DataIds :
                 IntegrityStep(w, d)
                 => /\ status' = status /\ records' = records
                    /\ \A o \in worker[w].snapshot :
                           status[o] = STATUS_RESOLVING => status'[o] = STATUS_RESOLVING
                    /\ running' = running /\ scheduled' = scheduled
                    /\ rundir' = rundir /\ channel' = channel
                    /\ shared' = shared /\ claims' = claims
                    /\ worker'[w].pc = "scan" /\ worker'[w].snapshot = {}
          /\ (/\ worker[w].pc = "scan" /\ worker[w].exp = "IntegrityError"
              /\ worker'[w] # worker[w])
             => /\ sync_semaphore' = sync_semaphore - 1
                /\ worker'[w].pc \in {"idle", "finish"}]_vars

\* C22 witness: a pass that had started the executor of the first object was
\* ended by an IntegrityError, the second object is left in RESOLVING, and the
\* claim of the command has been cleared.
C22_Witness ==
    /\ 1 \in running /\ status[1] = STATUS_WAITING
    /\ status[2] = STATUS_RESOLVING /\ 2 \in orphaned
    /\ \A w \in Workers : worker[w].pc = "idle"
    /\ channel = <<>>
    /\ claims.comm = 0 /\ claims.cleared = {"comm"} /\ sync_semaphore = 1
    /\ ncalls = 1

\* C29: a handler of COMMUNICATE takes sync_semaphore down by exactly one,
\* however its scan ends (it completes, an IntegrityError ends it, or another
\* exception leaves it): the step that ends the handler takes it down by one,
\* and no other step of the handler takes it down.
C29_CommunicateDebit ==
    [][\A w \in Workers :
          (/\ worker[w].cmd = COMMUNICATE
           /\ worker[w].pc \notin {"idle", "raised"}
           /\ worker'[w] # worker[w])
          => IF worker'[w].pc \in {"idle", "raised"}
             THEN sync_semaphore' = sync_semaphore - 1
             ELSE sync_semaphore' >= sync_semaphore]_vars

\* C29 witness: an exception has left the handler of the only COMMUNICATE and
\* the semaphore is back at 0.
C29_Witness ==
    \E w \in Workers :
        /\ worker[w].pc = "raised" /\ worker[w].cmd = COMMUNICATE
        /\ worker[w].exp = "Exception"
        /\ ncalls = 1 /\ sync_semaphore = 0 /\ claims.cleared = {"comm"}

\* C30: when a scan raises, every claim of the command is released all the
\* same (the claim of communicate(), or the follow-up claim together with the
\* finished executor's claim and its unit of executor_count) and the exception
\* does not leave the handler.
C30_FailingScanReleases ==
    [][\A w \in Workers :
          (worker[w].pc = "raise" /\ worker'[w] # worker[w])
          => /\ worker'[w].pc # "raised"
             /\ sync_semaphore' =
                    sync_semaphore - (IF worker[w].cmd = FINISH THEN 2 ELSE 1)
             /\ executor_count' =
                    executor_count - (IF worker[w].cmd = FINISH THEN 1 ELSE 0)]_vars

\* The executor of d is over: d was scheduled, and it is neither being handed
\* to run(), nor running, nor is its FINISH pending or being handled.
Over(d) ==
    /\ scheduled[d] >= 1
    /\ d \notin running
    /\ \A w \in Workers :
           /\ ~(worker[w].pc \in {"execute", "run"} /\ worker[w].data = d)
           /\ ~(worker[w].cmd = FINISH /\ worker[w].data_id = d)
    /\ \A i \in DOMAIN channel :
           ~(channel[i].cmd = FINISH /\ channel[i].data_id = d)

\* Worker w is in the follow-up scan of the FINISH of d.
FollowUp(w, d) ==
    /\ worker[w].cmd = FINISH /\ worker[w].spawned /\ worker[w].data_id = d

\* C25: the follow-up scan of the FINISH{spawned=true} of the first object
\* takes its child, the second object, when that is still RESOLVING, and
\* schedules it; sync_semaphore is above 0 all the time from the scheduling of
\* the first object until the FINISH of the second has been handled; and when
\* that has been handled and nothing else is in progress, both objects have
\* left RESOLVING and sync_semaphore is 0.
C25_SpawnedFollowUp ==
    /\ [][\A w \in Workers :
             /\ (FollowUp(w, 1) /\ worker[w].pc = "query"
                    /\ worker'[w].pc = "scan" /\ status[2] = STATUS_RESOLVING)
                => 2 \in worker'[w].snapshot
             /\ (FollowUp(w, 1) /\ RowStep(w, 2) /\ status[2] = STATUS_RESOLVING)
                => /\ status'[2] = STATUS_WAITING
                   /\ scheduled'[2] = scheduled[2] + 1]_vars
    /\ []((scheduled[1] >= 1 /\ ~Over(2)) => sync_semaphore > 0)
    /\ []((Over(2) /\ Quiescent)
              => /\ status[1] # STATUS_RESOLVING /\ status[2] # STATUS_RESOLVING
                 /\ sync_semaphore = 0)

\* C25 witness: a single communicate(); the first object's FINISH reported
\* spawned work, the second object was scheduled by the follow-up scan, its
\* FINISH has been handled, and the semaphore is back at 0.
C25_Witness ==
    /\ ncalls = 1 /\ Quiescent /\ Over(1) /\ Over(2)
    /\ status[1] = STATUS_DONE /\ status[2] = STATUS_DONE
    /\ claims.cleared = {"comm", "exec", "follow"}
    /\ sync_semaphore = 0

\* The step in which worker w takes a message off the channel.
TakesMessage(w) ==
    /\ MayTake(w)
    /\ channel # <<>>
    /\ channel' = Tail(channel)

\* The layers the handler of message m composes: the host's settings whose
\* names have one of the prefixes, the saved overrides, and the settings that
\* came with the message, which only COMMUNICATE has.
Layers(m) ==
    <<[k \in {n \in DOMAIN django_settings : n \in MarshalledKeys} |->
           django_settings[k]],
      settings_override,
      IF m.cmd = COMMUNICATE THEN m.settings ELSE NoSettings>>

\* C23: the settings a command is handled with have every name of the three
\* layers, each with the value of the highest layer that has it (host below
\* saved overrides below the settings of the message); FINISH and unknown
\* commands have no settings of their own; and handling a command leaves the
\* saved overrides as they are.
C23_SettingsPrecedence ==
    [][\A w \in Workers :
          TakesMessage(w)
          => LET layers == Layers(Head(channel))
                 actual == worker'[w].settings
             IN  /\ DOMAIN actual =
                        DOMAIN layers[1] \cup DOMAIN layers[2] \cup DOMAIN layers[3]
                 /\ \A k \in DOMAIN actual :
                        actual[k] = IF k \in DOMAIN layers[3] THEN layers[3][k]
                                    ELSE IF k \in DOMAIN layers[2] THEN layers[2][k]
                                    ELSE layers[1][k]
                 /\ settings_override' = settings_override]_vars

\* C23 witness: a COMMUNICATE is being handled with the value its message
\* brought, against the saved overrides and against the host, which has a name
\* that is not marshalled.
C23_Witness ==
    \E w \in Workers :
        /\ worker[w].cmd = COMMUNICATE /\ worker[w].pc = "query"
        /\ DOMAIN worker[w].settings = {FLOW_MANAGER_KEEP_DATA}
        /\ worker[w].settings[FLOW_MANAGER_KEEP_DATA]
        /\ settings_override = [k \in {FLOW_MANAGER_KEEP_DATA} |-> FALSE]
        /\ django_settings = [k \in {FLOW_MANAGER_KEEP_DATA, DEBUG} |-> k = DEBUG]

\* The step in which a scope of override_settings() is entered.
ScopeEntered ==
    Len(override_scopes'.stack) = Len(override_scopes.stack) + 1

\* The step in which the innermost scope is left.
ScopeLeft ==
    Len(override_scopes'.stack) = Len(override_scopes.stack) - 1

\* C24: on entry of an override scope the saved overrides become what they
\* were, with the given overrides on top; on exit they become what they were at
\* the entry of that scope, also when the body raised, in which case the
\* exception goes on; scopes within scopes are left innermost first, each
\* restoring what it found.
C24_OverrideScope ==
    [][/\ ScopeEntered
          => LET scope == override_scopes'.stack[Len(override_scopes'.stack)]
             IN  /\ scope.old_overrides = settings_override
                 /\ DOMAIN settings_override' =
                        DOMAIN settings_override \cup DOMAIN scope.overrides
                 /\ \A k \in DOMAIN settings_override' :
                        settings_override'[k] =
                            IF k \in DOMAIN scope.overrides
                            THEN scope.overrides[k] ELSE settings_override[k]
                 /\ SubSeq(override_scopes'.stack, 1, Len(override_scopes.stack))
                        = override_scopes.stack
       /\ ScopeLeft
          => LET n == Len(override_scopes.stack)
             IN  /\ settings_override' = override_scopes.stack[n].old_overrides
                 /\ override_scopes'.stack = SubSeq(override_scopes.stack, 1, n - 1)
                 /\ override_scopes'.exc = override_scopes.exc]_vars

\* C24 witness: the inner of two scopes was left by an exception, after a
\* communicate() inside it had saved the host's settings, and the overrides
\* are those of the outer scope again.
C24_Witness ==
    /\ Len(override_scopes.stack) = 1
    /\ override_scopes.exc = "Exception"
    /\ override_scopes.stack[1].old_overrides = NoSettings
    /\ override_scopes.stack[1].overrides = [k \in {DEBUG} |-> FALSE]
    /\ settings_override = override_scopes.stack[1].overrides
    /\ ncalls = 1 /\ caller[1].pc = "idle"
    /\ channel # <<>>
    /\ channel[1].settings = [k \in {FLOW_MANAGER_KEEP_DATA} |-> TRUE]

\* C26: when the sandbox is written, the secrets directory has mode 0o300,
\* every secret file has mode 0o600 whatever the umask of the process, which
\* is afterwards what it was, and the script has mode 0o700; and the secret
\* files are created exclusively: no file that was there before holds a secret.
C26_SecretModes ==
    sandbox.pc = "done"
    => /\ sandbox.secrets_dir.mode = Mode300
       /\ sandbox.umask = sandbox.initial_umask
       /\ sandbox.script.mode = Mode700
       /\ \A n \in SecretNames :
              /\ sandbox.secrets[n].content = "secret"
                 => /\ sandbox.secrets[n].mode = Mode600
                    /\ sandbox.secrets[n].owner = "manager"
              /\ sandbox.secrets[n].owner = "other"
                 => sandbox.secrets[n].content # "secret"

ResetReturns == reset_call.pc = "drain" /\ reset_call'.pc = "idle"

\* C28 as stated: when reset() returns, sync_semaphore, executor_count and
\* sync_execution are 0, the settings override map is cleared and the control
\* channel is empty.
C28_ResetLeavesAllClear ==
    [][ResetReturns
       => /\ sync_semaphore' = 0
          /\ executor_count' = 0
          /\ sync_execution' = 0
          /\ settings_override' = NoSettings
          /\ channel' = <<>>]_vars

\* C28 amended: reset() zeroes the three counters and clears the settings
\* override map in one step that touches nothing else, then drops the pending
\* commands one at a time without acting on them (no position of a worker, no
\* status, no directory and no counter changes), and returns only when it
\* finds the control channel empty.
C28_ResetSteps ==
    [][/\ reset_call.pc = "idle" /\ reset_call'.pc = "drain"
          => /\ sync_semaphore' = 0
             /\ executor_count' = 0
             /\ sync_execution' = 0
             /\ settings_override' = NoSettings
             /\ channel' = channel /\ status' = status /\ rundir' = rundir
             /\ worker' = worker /\ running' = running
       /\ reset_call.pc = "drain" /\ reset_call'.discarded # reset_call.discarded
          => /\ channel # <<>>
             /\ channel' = Tail(channel)
             /\ reset_call'.discarded = reset_call.discarded + 1
             /\ shared' = shared /\ status' = status /\ rundir' = rundir
             /\ worker' = worker /\ running' = running
             /\ scheduled' = scheduled /\ records' = records
       /\ ResetReturns
          => /\ channel = <<>> /\ channel' = <<>>
             /\ shared' = shared /\ status' = status /\ rundir' = rundir
             /\ worker' = worker /\ running' = running]_vars

\* reset() has returned after it dropped a pending command, and all is clear.
C28_Witness ==
    /\ reset_call.pc = "idle"
    /\ reset_call.discarded >= 1
    /\ sync_semaphore = 0 /\ executor_count = 0 /\ sync_execution = 0
    /\ settings_override = NoSettings
    /\ channel = <<>>
    /\ \A d \in DataIds : status[d] = STATUS_RESOLVING /\ rundir[d] = "absent"

\* C34: a command the manager does not know is logged and dropped: the step
\* that takes it off the control channel leaves sync_semaphore, executor_count,
\* sync_execution, settings_override, every status and record and every
\* runtime directory as they are, schedules nothing, and leaves the worker
\* ready for the commands that follow.
C34_UnknownDropped ==
    [][\A w \in Workers :
          (TakesMessage(w) /\ Head(channel).cmd \notin {COMMUNICATE, FINISH})
          => /\ shared' = shared
             /\ settings_override' = settings_override
             /\ status' = status /\ records' = records
             /\ rundir' = rundir
             /\ running' = running /\ scheduled' = scheduled
             /\ channel' = Tail(channel)
             /\ worker'[w].pc = "idle"
             /\ worker'[w].snapshot = {}]_vars

\* C34 witness: the worker is back from an unknown command, whose composed
\* settings it still has, and the next command, a COMMUNICATE, waits.
C34_Witness ==
    \E w \in Workers :
        /\ worker[w].pc = "idle"
        /\ worker[w].cmd = "none"
        /\ worker[w].settings # NoSettings
        /\ channel # <<>>
        /\ Head(channel).cmd = COMMUNICATE
        /\ sync_semaphore = 1

\* The step in which communicate() sends its command.
Sends ==
    /\ Len(channel') = Len(channel) + 1
    /\ channel'[Len(channel')].cmd = COMMUNICATE

\* What communicate() does with the settings: the command carries the saved
\* overrides as they are after the call, which are the marshalled host
\* settings (save_settings=True) or what they were (save_settings=False).
SendsSaved ==
    Sends
    => /\ channel'[Len(channel')].settings = settings_override'
       /\ \/ settings_override' = marshal_settings(django_settings)
          \/ settings_override' = settings_override

C36_NoLeakedSandbox ==
    ~keep_data(django_settings)
    => \A d \in DataIds :
           rundir[d] # "absent"
           => \/ d \in running
              \/ \E i \in 1..Len(channel) :
                     channel[i].cmd = FINISH /\ channel[i].data_id = d
              \/ \E w \in Workers : worker[w].pc = "run" /\ worker[w].data = d

\* C37: in every state sync_semaphore is at least executor_count, also between
\* the two increments of _data_execute and between the two decrements of the
\* FINISH handler and with several workers; so when sync_semaphore is 0 no
\* executor is running.
C37_SemaphoreCoversExecutors ==
    /\ sync_semaphore >= executor_count
    /\ sync_semaphore = 0 => running = {} /\ executor_count = 0

\* C37 witness: one worker is between the two increments of _data_execute
\* while the other is between the two decrements of a FINISH handler.
C37_Witness ==
    \E w, o \in Workers :
        /\ worker[w].pc = "run"
        /\ worker[o].pc = "finish_sema"
        /\ executor_count >= 1

\* C38: no task is stranded in WAITING: a task that is WAITING has its
\* _data_execute still to come or under way, or its executor has been handed
\* to run(); otherwise it has been set to ERROR.
C38_NoStrandedWaiting ==
    \A d \in DataIds :
        status[d] = STATUS_WAITING
        => \/ d \in running
           \/ \E w \in Workers :
                  worker[w].pc \in {"execute", "run"} /\ worker[w].data = d

\* C32: a task whose dependencies are DONE and whose evaluation succeeded, or
\* that has no run section, is committed as WAITING, unless the engine has set
\* it to DONE during the evaluation, and then it is committed as DONE; and no
\* step takes a task from DONE to WAITING.
C32_EngineDoneKept ==
    [][/\ \A w \in Workers, d \in DataIds :
             \A evaluation \in {"program", "empty", "done"} :
                 (/\ RowStep(w, d)
                  /\ status[d] = STATUS_RESOLVING
                  /\ dependency_status(d) = STATUS_DONE
                  /\ data_scan_row(w, d, evaluation))
                 => /\ status'[d] = IF evaluation = "done" THEN STATUS_DONE
                                    ELSE STATUS_WAITING
                    /\ process_error'[d] = process_error[d]
                    /\ scheduled'[d] = scheduled[d] + 1
       /\ \A d \in DataIds :
              status[d] = STATUS_DONE => status'[d] # STATUS_WAITING]_vars

\* C32 witness: a scan has just committed the first task as DONE, as the engine
\* set it, and no executor has run for it.
C32_Witness ==
    \E w \in Workers :
        /\ worker[w].pc = "execute" /\ worker[w].data = 1
        /\ status[1] = STATUS_DONE
        /\ scheduled[1] = 1
        /\ rundir[1] = "absent"
        /\ 1 \notin running

\* C39: the handler of the FINISH of d looks for the runtime directory where
\* it was made when d was scheduled, whatever has become of the saved
\* overrides since, and (keep-data not set, nothing denying) removes it.
C39_SameRuntimeDir ==
    [][\A w \in Workers, d \in DataIds :
          (/\ TakesMessage(w)
           /\ TakesFinish(d)
           /\ rundir[d] = "built"
           /\ ~keep_data(django_settings))
          => /\ get_per_data_dir(worker'[w].settings) = runtime_dir[d]
             /\ rundir'[d] = "absent"]_vars

\* Every thread has left its scope.
AllLeft == \A t \in Threads : override_scopes.threads[t].pc = "left"

\* Where in the history thread t made a statement.
Pos(t, statement) ==
    CHOOSE i \in DOMAIN override_scopes.log :
        override_scopes.log[i] = <<t, statement>>

\* The entries did not interleave and the scopes were left innermost first.
ProperlyNested ==
    /\ \A t \in Threads : Pos(t, "store") = Pos(t, "old") + 2
    /\ \A t, u \in Threads :
           (Pos(t, "old") < Pos(u, "old") /\ Pos(u, "old") < Pos(t, "exit"))
           => Pos(u, "exit") < Pos(t, "exit")

\* C40 as stated: once the scopes of all threads are left, in whatever order
\* they were entered and left, the saved overrides are what they were before
\* the first entry.
C40_ScopesDoNotLeak ==
    AllLeft => settings_override = override_scopes.before

\* C40 amended: a scope that is left stores what it read at its entry, so the
\* last one to leave decides; the saved overrides are what they were before
\* the first entry when the entries did not interleave and the scopes were
\* left innermost first.
C40_LastExitWins ==
    /\ (/\ override_scopes.log # <<>>
        /\ override_scopes.log[Len(override_scopes.log)][2] = "exit")
       => settings_override =
              override_scopes.threads[
                  override_scopes.log[Len(override_scopes.log)][1]].old_overrides
    /\ (AllLeft /\ ProperlyNested) => settings_override = override_scopes.before

\* C40 witness: the second thread entered and left its scope inside the scope
\* of the first, with other overrides, and the saved overrides, which an
\* earlier communicate() had left, are back.
C40_Witness ==
    /\ AllLeft
    /\ Pos(1, "store") < Pos(2, "old")
    /\ Pos(2, "exit") < Pos(1, "exit")
    /\ override_scopes.threads[1].overrides # override_scopes.threads[2].overrides
    /\ override_scopes.threads[2].old_overrides # override_scopes.before
    /\ override_scopes.before # NoSettings
    /\ settings_override = override_scopes.before

\* The step in which the transaction of worker w on the row of d ends, and
\* whether by an exception.
TransactionEnds(w, d) ==
    /\ worker[w].transaction.row = d
    /\ worker'[w].transaction.row = 0

RolledBack(w) == worker'[w].exp # worker[w].exp

\* C31: the hand-off is after the commit: a runtime directory is made, an
\* executor counted or handed to run() for a task only when the transaction
\* that took the task out of RESOLVING has committed and is over; and a
\* transaction that is rolled back leaves every status and record, the
\* directories, the counters and the executors as they were, and its hook is
\* not run.
C31_HandOffAfterCommit ==
    [][/\ \A d \in DataIds :
             (\/ rundir[d] = "absent" /\ rundir'[d] # "absent"
              \/ d \in running' \ running)
             => /\ status[d] # STATUS_RESOLVING
                /\ scheduled[d] = 1
                /\ \E w \in Workers :
                       /\ worker[w].pc \in {"execute", "run"}
                       /\ worker[w].data = d
                       /\ worker[w].transaction.row = 0
       /\ executor_count' > executor_count
             => \E w \in Workers :
                    /\ worker[w].pc = "execute"
                    /\ worker[w].transaction.row = 0
                    /\ status[worker[w].data] # STATUS_RESOLVING
       /\ \A w \in Workers, d \in DataIds :
             (TransactionEnds(w, d) /\ RolledBack(w))
             => /\ status' = status /\ records' = records
                /\ rundir' = rundir /\ shared' = shared
                /\ running' = running /\ scheduled' = scheduled
                /\ worker'[w].pc \in {"scan", "raise"}
                /\ worker'[w].snapshot = {}]_vars

\* C31 witness: the transaction that had set the first task to WAITING or DONE
\* or ERROR was rolled back by an IntegrityError: the task is RESOLVING and
\* nothing was made, counted or run.
C31_Witness ==
    \E w \in Workers :
        /\ worker[w].exp = "IntegrityError"
        /\ worker[w].pc = "scan"
        /\ \A d \in DataIds :
               /\ status[d] = STATUS_RESOLVING
               /\ scheduled[d] = 0
               /\ rundir[d] = "absent"
        /\ executor_count = 0
        /\ running = {}

\* C33: the objects an evaluation creates become visible in the step in which
\* the transition of the parent out of RESOLVING commits, and in no other:
\* with a transaction that is rolled back neither the transition nor the
\* objects are seen, and with an evaluation that raises after it has created
\* objects they are seen together with the parent in ERROR.
C33_ChildrenWithParent ==
    [][/\ \A d \in DataIds :
             (engine_data' \cap Children(d) # engine_data \cap Children(d))
             => /\ status[d] = STATUS_RESOLVING
                /\ status'[d] # STATUS_RESOLVING
                /\ engine_data \subseteq engine_data'
       /\ \A w \in Workers, d \in DataIds :
             TransactionEnds(w, d)
             => IF RolledBack(w)
                THEN engine_data' = engine_data /\ status' = status
                ELSE /\ engine_data' = engine_data \cup worker[w].transaction.children
                     /\ status'[d] = worker[w].transaction.status]_vars

\* C33 witness: the evaluation of the first task raised after it had created
\* an object: the task is in ERROR and the object is there.
C33_Witness ==
    /\ status[1] = STATUS_ERROR
    /\ process_error[1] = <<SCRIPT_ERROR>>
    /\ <<1, 1>> \in engine_data
    /\ status[2] = STATUS_RESOLVING

====
